---- MODULE Spec2Model ----
(***************************************************************************)
(* Model of the memalloc free-space manager: the Kernel (region list,     *)
(* free-list index, page size), its platform layer, the intrusive lists   *)
(* and the allocate / deallocate entry points built on them.              *)
(*                                                                         *)
(* Addresses are byte addresses.  A List<T> is modelled by the sequence   *)
(* of its nodes in link order; a node is identified by the address it was *)
(* written at.                                                             *)
(***************************************************************************)
EXTENDS Integers, Sequences, FiniteSets, TLC

(* ----------------------------- bounds --------------------------------- *)

\* Largest number of allocations a caller holds at the same time.
MaxLive == 3

\* Number of pages of address space the platform can hand out.
MaxPages == 2

\* Number of calls in a run.
MaxOps == 6

\* Request sizes the callers use: the empty request, two that are not a
\* multiple of the word (66 is too large to leave a remainder when it is
\* served from a block freed by a request of 125), one that fills a fresh
\* region exactly, one that is within REGION_HEADER_SIZE of a page once its
\* header is added.
Sizes == {0, 66, 125, 4008, 4056}

\* The triple-coalesce scenario: allocations held at the same time, calls
\* in a run, request sizes.
ScenarioLive == 4

ScenarioOps == 8

ScenarioSizes == {128, 264}

\* Repeated and null deallocation: allocations held at the same time, calls
\* in a run, request sizes.
FreeLive == 2

FreeOps == 5

FreeSizes == {0, 125, 4008}

\* Threads that share the allocator: allocations held at the same time,
\* calls in a run, request sizes.
Threads == {1, 2}

ThreadLive == 2

ThreadOps == 4

ThreadSizes == {0, 125, 4056}

\* Zero-filled allocation: allocations held at the same time, calls in a
\* run, request sizes (5 is shorter than a free-index node).
ZeroLive == 2

ZeroOps == 4

ZeroSizes == {5, 125}

\* The bare intrusive list: addresses a caller can supply for nodes, calls
\* in a run.
MaxNodes == 4

ListOps == 5

\* align called on its own: the largest value to align, and the largest
\* power of two (as an exponent) to align it to; 2^12 is the page size.
MaxInput == 8200

MaxShift == 12

\* MmapAllocator: pages of address space the platform can hand out, blocks
\* held at the same time, calls in a run, request sizes (the empty request,
\* the u64 of the tests, one that leaves no room for a split in a page).
MmapPages == 2

MmapLive == 3

MmapOps == 5

MmapSizes == {0, 8, 4040}

\* allocate and deallocate followed one internal call at a time: allocations
\* held at the same time, calls in a run, request sizes.
StepLive == 3

StepOps == 5

StepSizes == {0, 66, 125, 4008}

\* Threads that call without end: allocations held at the same time,
\* request sizes.
LiveLive == 2

LiveSizes == {0}

\* BumpAllocator: bytes the program break can rise by before sbrk fails,
\* blocks held at the same time, calls in a run, request sizes (a size that
\* is no multiple of the word among them).
BumpRoom == 96

BumpLive == 3

BumpOps == 5

BumpSizes == {0, 4, 8}

\* The cached page size: threads that call allocate, allocator instances in
\* the process.
MaxCallers == 2

MaxInstances == 2

(* ------------------------ program constants --------------------------- *)

\* mem::size_of::<usize>() on a 64-bit target.
WORD == 8

\* mem::size_of::<Node<Block>>(): next, prev, size, is_free (padded), region.
BLOCK_HEADER_SIZE == 40

\* mem::size_of::<Node<Region>>(): next, prev, size, blocks{head, tail, len}.
REGION_HEADER_SIZE == 48

\* Size of a free-index node: next, prev, data.
MIN_BLOCK_SIZE == 24

\* What Kernel::page_size() (sysconf(_SC_PAGE_SIZE)) answers.
SysPageSize == 4096

\* The null pointer / None.
NULL == 0

(* --------------------------- utils.rs --------------------------------- *)

Max(a, b) == IF a >= b THEN a ELSE b

MinOf(S) == CHOOSE x \in S : \A y \in S : x <= y

\* The element of a singleton.  The({e(v) : v \in {x}}) is e of the value of
\* x with x evaluated once, as a statement stores its result in a local
\* before the next statement reads it.
The(S) == CHOOSE v \in S : TRUE

\* v & !m on unsigned integers, bit by bit from the lowest: a bit of v is
\* kept where the bit of m is clear, and all of them above the highest bit
\* of m.
RECURSIVE AndNot(_, _)
AndNot(v, m) ==
    IF v = 0 \/ m = 0 THEN v
    ELSE 2 * AndNot(v \div 2, m \div 2) +
         (IF v % 2 = 1 /\ m % 2 = 0 THEN 1 ELSE 0)

\* An align that forgets to add aligment - 1 before it masks: it rounds down.
align_down(to_be_aligned, aligment) ==
    AndNot(to_be_aligned, aligment - 1)

\* (to_be_aligned + aligment - 1) & !(aligment - 1), the sum not overflowing.
align(to_be_aligned, aligment) ==
    AndNot(to_be_aligned + aligment - 1, aligment - 1)

(* ---------------------------- list.rs --------------------------------- *)

\* List::append: the new node becomes the tail.
append(list, node) == list \o <<node>>

\* An insert_after that links the new node after the tail.
insert_after_tail(list, i, node) == list \o <<node>>

\* List::insert_after: the new node is linked right after the i-th node.
insert_after(list, i, node) ==
    SubSeq(list, 1, i) \o <<node>> \o SubSeq(list, i + 1, Len(list))

\* List::remove: the i-th node is unlinked.
remove(list, i) == SubSeq(list, 1, i - 1) \o SubSeq(list, i + 1, Len(list))

\* The same three operations on the links themselves.  l is the List
\* (head, tail, len), mem the memory holding the nodes, by address; each
\* gives the list, the memory and the node reference returned.

\* A List::append that does not link the old tail to the new node.
List_append_no_link(l, mem, data, addr) ==
    LET node == addr
        mem1 == [mem EXCEPT ![node] =
                    [next |-> NULL, prev |-> l.tail, data |-> data]]
    IN  [list |-> [head |-> IF l.tail # NULL THEN l.head ELSE node,
                   tail |-> node,
                   len  |-> l.len + 1],
         mem  |-> mem1,
         node |-> node]

\* List::append.
List_append(l, mem, data, addr) ==
    LET node == addr
        mem1 == [mem EXCEPT ![node] =
                    [next |-> NULL, prev |-> l.tail, data |-> data]]
        mem2 == IF l.tail # NULL
                THEN [mem1 EXCEPT ![l.tail].next = node]
                ELSE mem1
    IN  [list |-> [head |-> IF l.tail # NULL THEN l.head ELSE node,
                   tail |-> node,
                   len  |-> l.len + 1],
         mem  |-> mem2,
         node |-> node]

\* A List::insert_after that leaves the tail where it was.
List_insert_after_old_tail(l, mem, node, data, addr) ==
    LET new  == addr
        next == mem[node].next
        mem1 == [mem EXCEPT ![new] =
                    [prev |-> node, next |-> next, data |-> data]]
        mem2 == [mem1 EXCEPT ![node].next = new]
        mem3 == IF next # NULL
                THEN [mem2 EXCEPT ![next].prev = new]
                ELSE mem2
    IN  [list |-> [l EXCEPT !.len = @ + 1],
         mem  |-> mem3,
         node |-> new]

\* List::insert_after.
List_insert_after(l, mem, node, data, addr) ==
    LET new  == addr
        next == mem[node].next
        mem1 == [mem EXCEPT ![new] =
                    [prev |-> node, next |-> next, data |-> data]]
        mem2 == [mem1 EXCEPT ![node].next = new]
        mem3 == IF next # NULL
                THEN [mem2 EXCEPT ![next].prev = new]
                ELSE mem2
    IN  [list |-> [l EXCEPT !.tail = IF next # NULL THEN @ ELSE new,
                            !.len  = @ + 1],
         mem  |-> mem3,
         node |-> new]

\* A List::remove that leaves the tail where it was.
List_remove_keeps_tail(l, mem, node) ==
    LET prev == mem[node].prev
        next == mem[node].next
        mem1 == IF prev # NULL THEN [mem EXCEPT ![prev].next = next] ELSE mem
        mem2 == IF next # NULL THEN [mem1 EXCEPT ![next].prev = prev] ELSE mem1
    IN  [list |-> [head |-> IF prev # NULL THEN l.head ELSE next,
                   tail |-> l.tail,
                   len  |-> l.len - 1],
         mem  |-> mem2,
         node |-> NULL]

\* A List::remove that links prev to next and leaves next.prev as it was.
List_remove_one_way(l, mem, node) ==
    LET prev == mem[node].prev
        next == mem[node].next
        mem1 == IF prev # NULL THEN [mem EXCEPT ![prev].next = next] ELSE mem
    IN  [list |-> [head |-> IF prev # NULL THEN l.head ELSE next,
                   tail |-> IF next # NULL THEN l.tail ELSE prev,
                   len  |-> l.len - 1],
         mem  |-> mem1,
         node |-> NULL]

\* List::remove.
List_remove(l, mem, node) ==
    LET prev == mem[node].prev
        next == mem[node].next
        mem1 == IF prev # NULL THEN [mem EXCEPT ![prev].next = next] ELSE mem
        mem2 == IF next # NULL THEN [mem1 EXCEPT ![next].prev = prev] ELSE mem1
    IN  [list |-> [head |-> IF prev # NULL THEN l.head ELSE next,
                   tail |-> IF next # NULL THEN l.tail ELSE prev,
                   len  |-> l.len - 1],
         mem  |-> mem2,
         node |-> NULL]

\* List::iter: the node addresses met from cur on by following next, at
\* most fuel of them.
RECURSIVE Iter(_, _, _)
Iter(cur, mem, fuel) ==
    IF cur = NULL \/ fuel = 0 THEN <<>>
    ELSE <<cur>> \o Iter(mem[cur].next, mem, fuel - 1)

(* ------------------------ block / region lookup ----------------------- *)

\* Index in the region list of the region whose header is at raddr.
RegionIndex(regs, raddr) ==
    CHOOSE i \in 1..Len(regs) : regs[i].addr = raddr

\* Index in a block list of the block whose header is at baddr.
BlockIndex(blocks, baddr) ==
    CHOOSE j \in 1..Len(blocks) : blocks[j].addr = baddr

\* Every block header of every region of the list.
AllBlocks(regs) ==
    UNION {{regs[i].blocks[j] : j \in 1..Len(regs[i].blocks)} : i \in 1..Len(regs)}

\* Dereference of a NonNull<Node<Block>>.
BlockAt(regs, baddr) == CHOOSE b \in AllBlocks(regs) : b.addr = baddr

\* Write through a NonNull<Node<Block>>: replace the header at baddr by nb.
WriteBlock(regs, baddr, nb) ==
    LET i == RegionIndex(regs, BlockAt(regs, baddr).region)
        j == BlockIndex(regs[i].blocks, baddr)
    IN  [regs EXCEPT ![i].blocks[j] = nb]

(* --------------------------- freelist.rs ------------------------------ *)

\* An insert_free_block that writes the node over the block header.
insert_free_block_at_header(k, block, addr) ==
    LET b == BlockAt(k.regions, block)
    IN  [k EXCEPT !.regions = WriteBlock(@, block, [b EXCEPT !.is_free = TRUE]),
                  !.free_list = append(@, [at |-> block, data |-> block])]

\* FreeList::insert_free_block: flag the block free, append a node written
\* at addr whose datum is the block.
insert_free_block(k, block, addr) ==
    LET b == BlockAt(k.regions, block)
    IN  [k EXCEPT !.regions = WriteBlock(@, block, [b EXCEPT !.is_free = TRUE]),
                  !.free_list = append(@, [at |-> addr, data |-> block])]

\* A remove_free_block whose comparison never matches.
remove_free_block_never(k, node) == k

\* A remove_free_block that unlinks the head of the index when no node has
\* the block as its datum.
remove_free_block_drops_head(k, node) ==
    LET fl   == k.free_list
        hits == {i \in 1..Len(fl) : fl[i].data = node}
    IN  IF Len(fl) = 0 THEN k
        ELSE IF hits = {} THEN [k EXCEPT !.free_list = remove(fl, 1)]
        ELSE [k EXCEPT !.free_list = remove(fl, MinOf(hits))]

\* FreeList::remove_free_block: unlink the first node whose datum is the
\* block; nothing happens when there is none.
remove_free_block(k, node) ==
    LET fl   == k.free_list
        hits == {i \in 1..Len(fl) : fl[i].data = node}
    IN  IF hits = {} THEN k
        ELSE [k EXCEPT !.free_list = remove(fl, MinOf(hits))]

\* A find_free_block that looks at the head of the index and no further.
find_free_block_head_only(k, size) ==
    IF Len(k.free_list) = 0 THEN NULL
    ELSE LET fl          == k.free_list
             layout_size == align(size, WORD)
             needed_size == Max(layout_size, MIN_BLOCK_SIZE)
             fits == {i \in 1..1 :
                         BlockAt(k.regions, fl[i].data).size >= needed_size}
         IN  IF fits = {} THEN NULL ELSE fl[MinOf(fits)].data

\* A find_free_block that answers the last entry that fits.
find_free_block_last_fit(k, size) ==
    IF Len(k.free_list) = 0 THEN NULL
    ELSE LET fl          == k.free_list
             layout_size == align(size, WORD)
             needed_size == Max(layout_size, MIN_BLOCK_SIZE)
             fits == {i \in 1..Len(fl) :
                         BlockAt(k.regions, fl[i].data).size >= needed_size}
         IN  IF fits = {} THEN NULL
             ELSE fl[CHOOSE i \in fits : \A j \in fits : j <= i].data

\* FreeList::find_free_block: first fit in index order, NULL when none.
find_free_block(k, size) ==
    IF Len(k.free_list) = 0 THEN NULL
    ELSE LET fl          == k.free_list
             layout_size == align(size, WORD)
             needed_size == Max(layout_size, MIN_BLOCK_SIZE)
             fits == {i \in 1..Len(fl) :
                         BlockAt(k.regions, fl[i].data).size >= needed_size}
         IN  IF fits = {} THEN NULL ELSE fl[MinOf(fits)].data

(* ---------------------------- region.rs ------------------------------- *)

\* A merge_with_prev that forgets the absorbed header in the new size.
merge_with_prev_no_header(k, raddr, node) ==
    LET i      == RegionIndex(k.regions, raddr)
        blocks == k.regions[i].blocks
        j      == BlockIndex(blocks, node)
    IN  IF j > 1 /\ blocks[j - 1].is_free
        THEN LET prev_node == blocks[j - 1].addr
                 k1 == remove_free_block(k, prev_node)
                 grown == [blocks[j - 1] EXCEPT !.size = @ + blocks[j].size]
                 nblocks == remove([blocks EXCEPT ![j - 1] = grown], j)
             IN  [k    |-> [k1 EXCEPT !.regions[i].blocks = nblocks],
                  node |-> prev_node]
        ELSE [k |-> k, node |-> node]

\* A merge_with_prev that leaves the caller's handle on the absorbed block.
merge_with_prev_keeps_handle(k, raddr, node) ==
    LET i      == RegionIndex(k.regions, raddr)
        blocks == k.regions[i].blocks
        j      == BlockIndex(blocks, node)
    IN  IF j > 1 /\ blocks[j - 1].is_free
        THEN LET prev_node == blocks[j - 1].addr
                 k1 == remove_free_block(k, prev_node)
                 grown == [blocks[j - 1] EXCEPT
                              !.size = @ + BLOCK_HEADER_SIZE + blocks[j].size]
                 nblocks == remove([blocks EXCEPT ![j - 1] = grown], j)
             IN  [k    |-> [k1 EXCEPT !.regions[i].blocks = nblocks],
                  node |-> node]
        ELSE [k |-> k, node |-> node]

\* A merge_with_prev that does not look at the flag of the predecessor.
merge_with_prev_used(k, raddr, node) ==
    LET i      == RegionIndex(k.regions, raddr)
        blocks == k.regions[i].blocks
        j      == BlockIndex(blocks, node)
    IN  IF j > 1
        THEN LET prev_node == blocks[j - 1].addr
                 k1 == remove_free_block(k, prev_node)
                 grown == [blocks[j - 1] EXCEPT
                              !.size = @ + BLOCK_HEADER_SIZE + blocks[j].size]
                 nblocks == remove([blocks EXCEPT ![j - 1] = grown], j)
             IN  [k    |-> [k1 EXCEPT !.regions[i].blocks = nblocks],
                  node |-> prev_node]
        ELSE [k |-> k, node |-> node]

\* Region::merge_with_prev: returns the kernel and the caller's handle.
merge_with_prev(k, raddr, node) ==
    LET i      == RegionIndex(k.regions, raddr)
        blocks == k.regions[i].blocks
        j      == BlockIndex(blocks, node)
    IN  IF j > 1 /\ blocks[j - 1].is_free
        THEN LET prev_node == blocks[j - 1].addr
                 k1 == remove_free_block(k, prev_node)
                 grown == [blocks[j - 1] EXCEPT
                              !.size = @ + BLOCK_HEADER_SIZE + blocks[j].size]
                 nblocks == remove([blocks EXCEPT ![j - 1] = grown], j)
             IN  [k    |-> [k1 EXCEPT !.regions[i].blocks = nblocks],
                  node |-> prev_node]
        ELSE [k |-> k, node |-> node]

\* A merge_with_next that never merges.
merge_with_next_never(k, raddr, node) == [k |-> k, node |-> node]

\* A merge_with_next that leaves the absorbed successor in the index.
merge_with_next_keeps_entry(k, raddr, node) ==
    LET i      == RegionIndex(k.regions, raddr)
        blocks == k.regions[i].blocks
        j      == BlockIndex(blocks, node)
    IN  IF j < Len(blocks) /\ blocks[j + 1].is_free
        THEN LET grown == [blocks[j] EXCEPT
                              !.size = @ + BLOCK_HEADER_SIZE + blocks[j + 1].size]
                 nblocks == remove([blocks EXCEPT ![j] = grown], j + 1)
             IN  [k    |-> [k EXCEPT !.regions[i].blocks = nblocks],
                  node |-> node]
        ELSE [k |-> k, node |-> node]

\* Region::merge_with_next: the handle keeps referring to node.
merge_with_next(k, raddr, node) ==
    LET i      == RegionIndex(k.regions, raddr)
        blocks == k.regions[i].blocks
        j      == BlockIndex(blocks, node)
    IN  IF j < Len(blocks) /\ blocks[j + 1].is_free
        THEN LET next_node == blocks[j + 1].addr
                 k1 == remove_free_block(k, next_node)
                 grown == [blocks[j] EXCEPT
                              !.size = @ + BLOCK_HEADER_SIZE + blocks[j + 1].size]
                 nblocks == remove([blocks EXCEPT ![j] = grown], j + 1)
             IN  [k    |-> [k1 EXCEPT !.regions[i].blocks = nblocks],
                  node |-> node]
        ELSE [k |-> k, node |-> node]

(* ---------------------------- kernel.rs ------------------------------- *)

\* Pages (by base address) covered by [addr, addr + len).
PagesOf(addr, len) ==
    {p \in {n * SysPageSize : n \in 1..(MaxPages + 1)} :
        addr <= p /\ p < addr + len}

\* request_memory (mmap): None, or the base of any unmapped page-aligned
\* range of len bytes.
request_memory(map, len) ==
    {NULL} \cup
    {a \in {n * SysPageSize : n \in 1..MaxPages} :
        /\ a + len <= (MaxPages + 1) * SysPageSize
        /\ PagesOf(a, len) \cap map = {}}

\* return_memory (munmap): the pages of the range are unmapped.
return_memory(map, addr, len) == map \ PagesOf(addr, len)

\* page_size() wrapper: the static is set on first use.
cached_page_size(static) == IF static = 0 THEN SysPageSize ELSE static

\* The length allocate_new_region asks the platform for.
region_size(size, page) ==
    LET layout_size    == align(size, WORD)
        needed_payload == Max(layout_size, MIN_BLOCK_SIZE)
        needed         == needed_payload + BLOCK_HEADER_SIZE
    IN  align(needed, page)

\* Kernel::allocate_new_region once request_memory answered Some(addr):
\* region header at addr, one free block right after it, indexed.
allocate_new_region(k, size, addr) ==
    LET rsize      == region_size(size, k.page_size)
        region     == [addr   |-> addr,
                       size   |-> rsize - REGION_HEADER_SIZE,
                       blocks |-> <<>>]
        block_addr == addr + REGION_HEADER_SIZE
        block_size == region.size - BLOCK_HEADER_SIZE
        block      == [addr    |-> block_addr,
                       size    |-> block_size,
                       is_free |-> TRUE,
                       region  |-> addr]
        k1 == [k EXCEPT !.regions =
                  append(@, [region EXCEPT !.blocks = append(@, block)])]
    IN  insert_free_block(k1, block_addr, block_addr + BLOCK_HEADER_SIZE)

\* A check_region_removal that forgets to put the block back in the index
\* when the region stays.
check_region_removal_no_reinsert(k, raddr, block) ==
    LET i == RegionIndex(k.regions, raddr)
    IN  IF Len(k.regions[i].blocks) = 1
        THEN LET total_region_size == k.regions[i].size + REGION_HEADER_SIZE
                 k1 == remove_free_block(k, block)
             IN  [k        |-> [k1 EXCEPT !.regions = remove(@, i)],
                  returned |-> {[addr |-> raddr, len |-> total_region_size]}]
        ELSE [k |-> remove_free_block(k, block), returned |-> {}]

\* A check_region_removal that gives back the region without its header's
\* length.
check_region_removal_short_release(k, raddr, block) ==
    LET i == RegionIndex(k.regions, raddr)
    IN  IF Len(k.regions[i].blocks) = 1
        THEN LET total_region_size == k.regions[i].size
                 k1 == remove_free_block(k, block)
             IN  [k        |-> [k1 EXCEPT !.regions = remove(@, i)],
                  returned |-> {[addr |-> raddr, len |-> total_region_size]}]
        ELSE LET k1 == remove_free_block(k, block)
             IN  [k        |-> insert_free_block(k1, block,
                                                 block + BLOCK_HEADER_SIZE),
                  returned |-> {}]

\* A check_region_removal that keeps every region.
check_region_removal_keeps_region(k, raddr, block) ==
    LET k1 == remove_free_block(k, block)
    IN  [k        |-> insert_free_block(k1, block, block + BLOCK_HEADER_SIZE),
         returned |-> {}]

\* Kernel::check_region_removal: the kernel and the range given back to the
\* platform (none when the region stays).
check_region_removal(k, raddr, block) ==
    LET i == RegionIndex(k.regions, raddr)
    IN  IF Len(k.regions[i].blocks) = 1
        THEN LET total_region_size == k.regions[i].size + REGION_HEADER_SIZE
                 k1 == remove_free_block(k, block)
             IN  [k        |-> [k1 EXCEPT !.regions = remove(@, i)],
                  returned |-> {[addr |-> raddr, len |-> total_region_size]}]
        ELSE LET k1 == remove_free_block(k, block)
             IN  [k        |-> insert_free_block(k1, block,
                                                 block + BLOCK_HEADER_SIZE),
                  returned |-> {}]

\* A take_from_block that splits at the smallest offset whatever the size
\* requested.
take_from_block_short_split(k, block, requested_size) ==
    LET split_offset == align(BLOCK_HEADER_SIZE + MIN_BLOCK_SIZE, WORD)
        b            == BlockAt(k.regions, block)
        total        == b.size + BLOCK_HEADER_SIZE
    IN  IF total >= split_offset + BLOCK_HEADER_SIZE + MIN_BLOCK_SIZE
        THEN LET remaining     == total - split_offset - BLOCK_HEADER_SIZE
                 k1            == remove_free_block(k, block)
                 new_node_addr == block + split_offset
                 shrunk        == [b EXCEPT !.is_free = FALSE,
                                            !.size = split_offset - BLOCK_HEADER_SIZE]
                 i             == RegionIndex(k.regions, b.region)
                 j             == BlockIndex(k.regions[i].blocks, block)
                 new_block     == [addr    |-> new_node_addr,
                                   size    |-> remaining,
                                   is_free |-> TRUE,
                                   region  |-> b.region]
                 k2 == [k1 EXCEPT !.regions[i].blocks =
                          insert_after([@ EXCEPT ![j] = shrunk], j, new_block)]
             IN  [k   |-> insert_free_block(k2, new_node_addr,
                                            new_node_addr + BLOCK_HEADER_SIZE),
                  ret |-> block + BLOCK_HEADER_SIZE]
        ELSE LET k1 == remove_free_block(k, block)
             IN  [k   |-> [k1 EXCEPT !.regions =
                              WriteBlock(@, block, [b EXCEPT !.is_free = FALSE])],
                  ret |-> block + BLOCK_HEADER_SIZE]

\* A take_from_block that does not round the request up to the word.
take_from_block_unaligned(k, block, requested_size) ==
    LET requested    == Max(requested_size, MIN_BLOCK_SIZE)
        split_offset == BLOCK_HEADER_SIZE + requested
        b            == BlockAt(k.regions, block)
        total        == b.size + BLOCK_HEADER_SIZE
    IN  IF total >= split_offset + BLOCK_HEADER_SIZE + MIN_BLOCK_SIZE
        THEN LET remaining     == total - split_offset - BLOCK_HEADER_SIZE
                 k1            == remove_free_block(k, block)
                 new_node_addr == block + split_offset
                 shrunk        == [b EXCEPT !.is_free = FALSE,
                                            !.size = split_offset - BLOCK_HEADER_SIZE]
                 i             == RegionIndex(k.regions, b.region)
                 j             == BlockIndex(k.regions[i].blocks, block)
                 new_block     == [addr    |-> new_node_addr,
                                   size    |-> remaining,
                                   is_free |-> TRUE,
                                   region  |-> b.region]
                 k2 == [k1 EXCEPT !.regions[i].blocks =
                          insert_after([@ EXCEPT ![j] = shrunk], j, new_block)]
             IN  [k   |-> insert_free_block(k2, new_node_addr,
                                            new_node_addr + BLOCK_HEADER_SIZE),
                  ret |-> block + BLOCK_HEADER_SIZE]
        ELSE LET k1 == remove_free_block(k, block)
             IN  [k   |-> [k1 EXCEPT !.regions =
                              WriteBlock(@, block, [b EXCEPT !.is_free = FALSE])],
                  ret |-> block + BLOCK_HEADER_SIZE]

\* A take_from_block that splits as soon as a second header fits.
take_from_block_eager_split(k, block, requested_size) ==
    LET layout_size  == align(requested_size, WORD)
        requested    == Max(layout_size, MIN_BLOCK_SIZE)
        split_offset == align(BLOCK_HEADER_SIZE + requested, WORD)
        b            == BlockAt(k.regions, block)
        total        == b.size + BLOCK_HEADER_SIZE
    IN  IF total >= split_offset + BLOCK_HEADER_SIZE
        THEN LET remaining     == total - split_offset - BLOCK_HEADER_SIZE
                 k1            == remove_free_block(k, block)
                 new_node_addr == block + split_offset
                 shrunk        == [b EXCEPT !.is_free = FALSE,
                                            !.size = split_offset - BLOCK_HEADER_SIZE]
                 i             == RegionIndex(k.regions, b.region)
                 j             == BlockIndex(k.regions[i].blocks, block)
                 new_block     == [addr    |-> new_node_addr,
                                   size    |-> remaining,
                                   is_free |-> TRUE,
                                   region  |-> b.region]
                 k2 == [k1 EXCEPT !.regions[i].blocks =
                          insert_after([@ EXCEPT ![j] = shrunk], j, new_block)]
             IN  [k   |-> insert_free_block(k2, new_node_addr,
                                            new_node_addr + BLOCK_HEADER_SIZE),
                  ret |-> block + BLOCK_HEADER_SIZE]
        ELSE LET k1 == remove_free_block(k, block)
             IN  [k   |-> [k1 EXCEPT !.regions =
                              WriteBlock(@, block, [b EXCEPT !.is_free = FALSE])],
                  ret |-> block + BLOCK_HEADER_SIZE]

\* Kernel::take_from_block: the kernel and the payload pointer returned.
take_from_block(k, block, requested_size) ==
    LET layout_size  == align(requested_size, WORD)
        requested    == Max(layout_size, MIN_BLOCK_SIZE)
        split_offset == align(BLOCK_HEADER_SIZE + requested, WORD)
        b            == BlockAt(k.regions, block)
        total        == b.size + BLOCK_HEADER_SIZE
    IN  IF total >= split_offset + BLOCK_HEADER_SIZE + MIN_BLOCK_SIZE
        THEN LET remaining     == total - split_offset - BLOCK_HEADER_SIZE
                 k1            == remove_free_block(k, block)
                 new_node_addr == block + split_offset
                 shrunk        == [b EXCEPT !.is_free = FALSE,
                                            !.size = split_offset - BLOCK_HEADER_SIZE]
                 i             == RegionIndex(k.regions, b.region)
                 j             == BlockIndex(k.regions[i].blocks, block)
                 new_block     == [addr    |-> new_node_addr,
                                   size    |-> remaining,
                                   is_free |-> TRUE,
                                   region  |-> b.region]
                 k2 == [k1 EXCEPT !.regions[i].blocks =
                          insert_after([@ EXCEPT ![j] = shrunk], j, new_block)]
             IN  [k   |-> insert_free_block(k2, new_node_addr,
                                            new_node_addr + BLOCK_HEADER_SIZE),
                  ret |-> block + BLOCK_HEADER_SIZE]
        ELSE LET k1 == remove_free_block(k, block)
             IN  [k   |-> [k1 EXCEPT !.regions =
                              WriteBlock(@, block, [b EXCEPT !.is_free = FALSE])],
                  ret |-> block + BLOCK_HEADER_SIZE]

(* ------------------------- allocate / deallocate ---------------------- *)

\* Kernel::allocate_new_region up to the platform call: the page size is
\* fetched on first use.
with_page_size(k, static) ==
    [k EXCEPT !.page_size = IF @ = 0 THEN cached_page_size(static) ELSE @]

\* allocate(size), addr being what request_memory answers if it is called:
\* first fit; when there is none grow the heap by one region and search
\* again; a null pointer when the search still finds nothing.  A failed
\* request_memory panics in allocate_new_region.  Each binder is a local
\* of the function: block, k0 (self after the page size is known), k1 (self
\* after the growth), b1 (the second search) and t (take_from_block).
allocate(k, static, size, addr) ==
    The({
        IF block # NULL
        THEN The({[k |-> t.k, ret |-> t.ret, grew |-> FALSE, panic |-> FALSE] :
                  t \in {take_from_block(k, block, size)}})
        ELSE The({
                 IF addr = NULL
                 THEN [k |-> k0, ret |-> NULL, grew |-> FALSE, panic |-> TRUE]
                 ELSE The({The({
                          IF b1 = NULL
                          THEN [k |-> k1, ret |-> NULL, grew |-> TRUE,
                                panic |-> FALSE]
                          ELSE The({[k |-> t.k, ret |-> t.ret, grew |-> TRUE,
                                     panic |-> FALSE] :
                                    t \in {take_from_block(k1, b1, size)}}) :
                      b1 \in {find_free_block(k1, size)}}) :
                      k1 \in {allocate_new_region(k0, size, addr)}}) :
             k0 \in {with_page_size(k, static)}}) :
        block \in {find_free_block(k, size)}})

\* A deallocate that empties the free-list index when handed the null
\* pointer.
deallocate_null_resets(k, ptr) ==
    IF ptr = NULL
    THEN [k |-> [k EXCEPT !.free_list = <<>>], returned |-> {}, node |-> NULL]
    ELSE LET block == ptr - BLOCK_HEADER_SIZE
             b     == BlockAt(k.regions, block)
         IN  IF b.is_free THEN [k |-> k, returned |-> {}, node |-> NULL]
             ELSE The({The({The({The({
                      [k |-> c.k, returned |-> c.returned, node |-> m2.node] :
                  c  \in {check_region_removal(m2.k, b.region, m2.node)}}) :
                  m2 \in {merge_with_next(m1.k, b.region, m1.node)}}) :
                  m1 \in {merge_with_prev(k1, b.region, block)}}) :
                  k1 \in {[k EXCEPT !.regions =
                             WriteBlock(@, block, [b EXCEPT !.is_free = TRUE])]}})

\* deallocate(ptr): recover the header, flag the block free, coalesce with
\* both neighbours, then release the region or re-index the block.
deallocate(k, ptr) ==
    IF ptr = NULL THEN [k |-> k, returned |-> {}, node |-> NULL]
    ELSE LET block == ptr - BLOCK_HEADER_SIZE
             b     == BlockAt(k.regions, block)
         IN  IF b.is_free THEN [k |-> k, returned |-> {}, node |-> NULL]
             ELSE The({The({The({The({
                      [k |-> c.k, returned |-> c.returned, node |-> m2.node] :
                  c  \in {check_region_removal(m2.k, b.region, m2.node)}}) :
                  m2 \in {merge_with_next(m1.k, b.region, m1.node)}}) :
                  m1 \in {merge_with_prev(k1, b.region, block)}}) :
                  k1 \in {[k EXCEPT !.regions =
                             WriteBlock(@, block, [b EXCEPT !.is_free = TRUE])]}})

\* Base address of the page that holds the address x.
PageOf(x) == x - (x % SysPageSize)

(* ----------------------------- mmap.rs -------------------------------- *)

\* mem::size_of::<Block>() of mmap.rs: size, is_free (padded), prev, next,
\* region.
header_size == 40

\* MIN_BLOCK_SIZE of mmap.rs, mem::size_of::<FreeList>(): prev, next, len.
MMAP_MIN_BLOCK_SIZE == 24

\* Byte offsets of the fields of Block, in declaration order.
SIZE_AT == 0

IS_FREE_AT == 8

PREV_AT == 16

NEXT_AT == 24

REGION_AT == 32

\* Byte offsets of the prev and next fields of FreeList.
LINKS_PREV_AT == 0

LINKS_NEXT_AT == 8

\* Longest walk of the free list before the walk is taken to be endless.
WalkFuel == 8

\* The result of a walk that does not end.
ENDLESS == -1

\* The result of a walk that reads an address in no mapped page.
FAULT == -2

\* The result of a walk through a pointer that is not word-aligned.
UNDEFINED == -3

\* Read of the word at address a: mapped memory nobody wrote holds zero.
Load(mem, a) == IF a \in DOMAIN mem THEN mem[a] ELSE 0

\* Write of the word v at address a.
Store(mem, a, v) == (a :> v) @@ mem

\* Write of the bool b at address a: one byte, the lowest of the word at a.
StoreBool(mem, a, b) ==
    The({Store(mem, a, (word - (word % 256)) + b) : word \in {Load(mem, a)}})

\* Read of the bool at address a.  A byte that is neither 0 nor 1 is no bool:
\* the read is undefined and yields whatever the build makes of it, m.junk.
LoadBool(m, a) ==
    The({IF byte = 0 THEN FALSE ELSE IF byte = 1 THEN TRUE ELSE m.junk :
            byte \in {Load(m.mem, a) % 256}})

\* The allocator m once the addresses of addrs were dereferenced in this order:
\* a pointer that is not word-aligned is undefined behaviour, an address in
\* no mapped page is a fault, and either ends the call.
Deref(m, addrs) ==
    The({LET bad   == {i \in DOMAIN s : \/ s[i] % WORD # 0
                                        \/ PageOf(s[i]) \notin m.mapped}
             first == CHOOSE i \in bad : \A j \in bad : i <= j
         IN  IF m.status # "running" \/ bad = {} THEN m
             ELSE IF s[first] % WORD # 0
             THEN [m EXCEPT !.status = "undefined"]
             ELSE [m EXCEPT !.status = "faulted"] :
            s \in {addrs}})

\* MmapAllocator::align.
Mmap_align(to_be_aligned, aligment) ==
    AndNot(to_be_aligned + aligment - 1, aligment - 1)

\* Block::free_list_ptr: the links lie at the start of the payload.
free_list_ptr(current) == current + header_size

\* The loop of find_block from current on.  m is the allocator with the
\* memory it works on: [regions, page_size, len, free_list, boxes, mem,
\* mapped, status, junk].
RECURSIVE find_block_from(_, _, _, _)
find_block_from(m, current, needed_size, fuel) ==
    IF current = NULL THEN NULL
    ELSE IF fuel = 0 THEN ENDLESS
    ELSE LET links == free_list_ptr(current)
             Sentinel(status) == IF status = "faulted" THEN FAULT ELSE UNDEFINED
             Step(status) ==
                 IF status # "running" THEN Sentinel(status)
                 ELSE The({find_block_from(m, next, needed_size, fuel - 1) :
                              next \in {Load(m.mem, links + LINKS_NEXT_AT)}})
         IN  The({IF status # "running" THEN Sentinel(status)
                  ELSE IF Load(m.mem, current + SIZE_AT) >= needed_size
                  THEN current
                  ELSE The({Step(after) :
                       after \in {Deref(m, <<links + LINKS_NEXT_AT>>).status}}) :
                     status \in {Deref(m, <<current + SIZE_AT>>).status}})

\* MmapAllocator::find_block.
find_block(m, size) ==
    IF m.free_list = NULL THEN NULL
    ELSE find_block_from(m, m.free_list, Mmap_align(size, WORD), WalkFuel)

\* MmapAllocator::insert_free_block: the block becomes the head.
Mmap_insert_free_block(m, block) ==
    LET links == free_list_ptr(block)
        d     == Deref(m, <<block + IS_FREE_AT, links + LINKS_PREV_AT,
                            links + LINKS_NEXT_AT>>
                          \o (IF m.free_list # NULL
                              THEN <<free_list_ptr(m.free_list) + LINKS_PREV_AT>>
                              ELSE <<>>))
        mem1  == StoreBool(m.mem, block + IS_FREE_AT, 1)
        mem2  == Store(mem1, links + LINKS_PREV_AT, NULL)
        mem3  == Store(mem2, links + LINKS_NEXT_AT, m.free_list)
        mem4  == IF m.free_list # NULL
                 THEN Store(mem3, free_list_ptr(m.free_list) + LINKS_PREV_AT,
                            block)
                 ELSE mem3
    IN  The({IF after.status # "running" THEN after
             ELSE [m EXCEPT !.mem = mem4, !.free_list = block] :
                after \in {d}})

\* MmapAllocator::remove_free_block.
Mmap_remove_free_block(m, block) ==
    LET links == free_list_ptr(block)
        prev  == Load(m.mem, links + LINKS_PREV_AT)
        next  == Load(m.mem, links + LINKS_NEXT_AT)
        d     == Deref(m, <<links + LINKS_PREV_AT, links + LINKS_NEXT_AT>>
                          \o (IF prev # NULL
                              THEN <<free_list_ptr(prev) + LINKS_NEXT_AT>>
                              ELSE <<>>)
                          \o (IF next # NULL
                              THEN <<free_list_ptr(next) + LINKS_PREV_AT>>
                              ELSE <<>>)
                          \o <<block + IS_FREE_AT>>)
        mem1  == IF prev # NULL
                 THEN Store(m.mem, free_list_ptr(prev) + LINKS_NEXT_AT, next)
                 ELSE m.mem
        mem2  == IF next # NULL
                 THEN Store(mem1, free_list_ptr(next) + LINKS_PREV_AT, prev)
                 ELSE mem1
        mem3  == Store(mem2, links + LINKS_PREV_AT, NULL)
        mem4  == Store(mem3, links + LINKS_NEXT_AT, NULL)
        mem5  == StoreBool(mem4, block + IS_FREE_AT, 0)
    IN  The({IF after.status # "running" THEN after
             ELSE [m EXCEPT !.mem = mem5,
                            !.free_list = IF prev # NULL THEN @ ELSE next] :
                after \in {d}})

\* Pages (by base address) covered by [addr, addr + len).
MmapPagesOf(addr, len) ==
    {p \in {n * SysPageSize : n \in 1..(MmapPages + 1)} :
        addr <= p /\ p < addr + len}

\* libc::mmap: MAP_FAILED (NULL here), or the base of any unmapped
\* page-aligned range of len bytes.
mmap(mapped_pages, len) ==
    {NULL} \cup
    {a \in {n * SysPageSize : n \in 1..MmapPages} :
        /\ a + len <= (MmapPages + 1) * SysPageSize
        /\ MmapPagesOf(a, len) \cap mapped_pages = {}}

\* The length MmapAllocator::allocate_new_region asks mmap for.
Mmap_region_size(size, page) ==
    LET needed_payload == Mmap_align(size, WORD)
        needed         == needed_payload + header_size
    IN  Mmap_align(needed, page)

\* MmapAllocator::allocate_new_region once mmap answered addr and Box::new
\* placed the Region at region_ptr: the region goes to the front of the
\* region list, its only block fills it and is free.
Mmap_allocate_new_region(m, size, addr, region_ptr) ==
    LET rsize     == Mmap_region_size(size, m.page_size)
        start     == addr
        region    == [start |-> start, size |-> rsize, next |-> m.regions,
                      prev |-> NULL, first |-> start]
        new_block == start
        mem1 == Store(m.mem, new_block + SIZE_AT, rsize - header_size)
        mem2 == StoreBool(mem1, new_block + IS_FREE_AT, 1)
        mem3 == Store(mem2, new_block + PREV_AT, NULL)
        mem4 == Store(mem3, new_block + NEXT_AT, NULL)
        mem5 == Store(mem4, new_block + REGION_AT, region_ptr)
        boxes1 == [b \in DOMAIN m.boxes \cup {region_ptr} |->
                      IF b = region_ptr THEN region
                      ELSE IF b = m.regions
                           THEN [m.boxes[b] EXCEPT !.prev = region_ptr]
                           ELSE m.boxes[b]]
        m1 == [m EXCEPT !.mem = mem5,
                        !.boxes = boxes1,
                        !.regions = region_ptr,
                        !.len = @ + 1,
                        !.mapped = @ \cup MmapPagesOf(addr, rsize)]
    IN  The({Mmap_insert_free_block(grown, new_block) : grown \in {m1}})

\* MmapAllocator::take_from_block: the allocator and the pointer returned.
Mmap_take_from_block(m, block, requested_size) ==
    LET requested == Mmap_align(requested_size, WORD)
        size      == Load(m.mem, block + SIZE_AT)
        remaining == IF size >= requested THEN size - requested ELSE 0
        \* the split of m1, the allocator after remove_free_block
        Split(m1) ==
            LET new_free_block == block + header_size + requested
                next == Load(m1.mem, block + NEXT_AT)
                d    == Deref(m1, <<new_free_block + SIZE_AT,
                                    new_free_block + IS_FREE_AT,
                                    new_free_block + PREV_AT,
                                    block + NEXT_AT,
                                    new_free_block + NEXT_AT,
                                    block + REGION_AT,
                                    new_free_block + REGION_AT>>
                                  \o (IF next # NULL THEN <<next + PREV_AT>>
                                      ELSE <<>>)
                                  \o <<block + SIZE_AT>>)
                mem1 == Store(m1.mem, new_free_block + SIZE_AT,
                              remaining - header_size)
                mem2 == StoreBool(mem1, new_free_block + IS_FREE_AT, 1)
                mem3 == Store(mem2, new_free_block + PREV_AT, block)
                mem4 == Store(mem3, new_free_block + NEXT_AT, next)
                mem5 == Store(mem4, new_free_block + REGION_AT,
                              Load(mem4, block + REGION_AT))
                mem6 == IF Load(mem5, block + NEXT_AT) # NULL
                        THEN Store(mem5, Load(mem5, block + NEXT_AT) + PREV_AT,
                                   new_free_block)
                        ELSE mem5
                mem7 == Store(mem6, block + NEXT_AT, new_free_block)
                mem8 == Store(mem7, block + SIZE_AT, requested)
            IN  The({IF after.status # "running" THEN after
                     ELSE The({Mmap_insert_free_block(m2, new_free_block) :
                                  m2 \in {[m1 EXCEPT !.mem = mem8]}}) :
                        after \in {d}})
    IN  The({The({[m   |-> IF m1.status = "running" /\
                              remaining > header_size + MMAP_MIN_BLOCK_SIZE
                           THEN Split(m1) ELSE m1,
                   ret |-> block + header_size] :
                     m1 \in {Mmap_remove_free_block(m0, block)}}) :
                m0 \in {Deref(m, <<block + SIZE_AT>>)}})

\* A call that the process does not survive leaves nothing of its work to
\* observe: the allocator is as it was, but for what became of the process.
Ended(m, after) ==
    IF after.status = "running" THEN after
    ELSE [m EXCEPT !.status = after.status]

\* MmapAllocator::alloc, addr being what mmap answers and region_ptr where
\* Box::new places the Region if a region is needed.  A failed mmap panics;
\* a walk of the free list that does not end never returns.
Mmap_alloc(m, size, addr, region_ptr) ==
    LET Taken(m0, block) ==
            The({[m |-> Ended(m, t.m), ret |-> t.ret] :
                    t \in {Mmap_take_from_block(m0, block, size)}})
        Stop(status) == [m |-> [m EXCEPT !.status = status], ret |-> NULL]
        Found(m0, block) ==
            IF block = ENDLESS THEN Stop("hung")
            ELSE IF block = FAULT THEN Stop("faulted")
            ELSE IF block = UNDEFINED THEN Stop("undefined")
            ELSE Taken(m0, block)
        Grown(m1) ==
            The({IF b1 = NULL THEN [m |-> m1, ret |-> NULL]
                 ELSE Found(m1, b1) :
                    b1 \in {find_block(m1, size)}})
        First(block) ==
            IF block # NULL THEN Found(m, block)
            ELSE IF addr = NULL THEN Stop("panicked")
            ELSE The({IF m1.status # "running" THEN Stop(m1.status)
                      ELSE Grown(m1) :
                        m1 \in {Mmap_allocate_new_region(m, size, addr,
                                                         region_ptr)}})
    IN  The({First(block) : block \in {find_block(m, size)}})

\* libc::munmap and the drop of the Box: the pages of the region go back to
\* the platform with what they held.
Mmap_release(m, region) ==
    LET r == m.boxes[region]
    IN  [m EXCEPT
           !.mapped = @ \ MmapPagesOf(r.start, r.size),
           !.mem = [x \in {y \in DOMAIN m.mem :
                              y < r.start \/ y >= r.start + r.size} |-> m.mem[x]],
           !.boxes = [b \in DOMAIN m.boxes \ {region} |-> m.boxes[b]]]

\* A dealloc that neither coalesces nor releases: the block goes to the free
\* list as it is.
Mmap_dealloc_keeps_region(m, ptr) ==
    IF ptr = NULL THEN m
    ELSE LET block == ptr - header_size
         IN  IF LoadBool(m, block + IS_FREE_AT) THEN m
             ELSE Mmap_insert_free_block(m, block)

\* The first merge of dealloc: a free previous block absorbs the block and
\* becomes the block.  The allocator and the block dealloc goes on with.
Mmap_merge_prev(m0, block0) ==
    LET prev == Load(m0.mem, block0 + PREV_AT)
        d    == Deref(m0, <<block0 + PREV_AT>>
                          \o (IF prev # NULL THEN <<prev + IS_FREE_AT>>
                              ELSE <<>>))
        Merge(m1) ==
            LET next == Load(m1.mem, block0 + NEXT_AT)
                d1   == Deref(m1, <<prev + SIZE_AT, block0 + SIZE_AT,
                                    block0 + NEXT_AT, prev + NEXT_AT>>
                                  \o (IF next # NULL THEN <<next + PREV_AT>>
                                      ELSE <<>>))
                mem1 == Store(m1.mem, prev + SIZE_AT,
                              Load(m1.mem, prev + SIZE_AT) + header_size
                                + Load(m1.mem, block0 + SIZE_AT))
                mem2 == Store(mem1, prev + NEXT_AT, next)
                mem3 == IF next # NULL
                        THEN Store(mem2, next + PREV_AT, prev)
                        ELSE mem2
            IN  The({IF after.status # "running" THEN after
                     ELSE [m1 EXCEPT !.mem = mem3] :
                        after \in {d1}})
    IN  The({IF after.status # "running"
             THEN [m |-> after, block |-> block0]
             ELSE IF prev # NULL /\ LoadBool(m0, prev + IS_FREE_AT)
             THEN The({[m |-> Merge(m1), block |-> prev] :
                          m1 \in {IF Load(m0.mem, prev + SIZE_AT)
                                       >= MMAP_MIN_BLOCK_SIZE
                                  THEN Mmap_remove_free_block(m0, prev)
                                  ELSE m0}})
             ELSE [m |-> m0, block |-> block0] :
                after \in {Deref(d, IF prev # NULL
                                       /\ LoadBool(m0, prev + IS_FREE_AT)
                                    THEN <<prev + SIZE_AT>> ELSE <<>>)}})

\* The second merge of dealloc: the block absorbs a free next block.
Mmap_merge_next(m0, block) ==
    LET next == Load(m0.mem, block + NEXT_AT)
        d    == Deref(m0, <<block + NEXT_AT>>
                          \o (IF next # NULL THEN <<next + IS_FREE_AT>>
                              ELSE <<>>))
        Merge(m1) ==
            LET after == Load(m1.mem, next + NEXT_AT)
                d1    == Deref(m1, <<block + SIZE_AT, next + SIZE_AT,
                                     next + NEXT_AT, block + NEXT_AT>>
                                   \o (IF after # NULL THEN <<after + PREV_AT>>
                                       ELSE <<>>))
                mem1 == Store(m1.mem, block + SIZE_AT,
                              Load(m1.mem, block + SIZE_AT) + header_size
                                + Load(m1.mem, next + SIZE_AT))
                mem2 == Store(mem1, block + NEXT_AT, after)
                mem3 == IF after # NULL
                        THEN Store(mem2, after + PREV_AT, block)
                        ELSE mem2
            IN  The({IF ended.status # "running" THEN ended
                     ELSE [m1 EXCEPT !.mem = mem3] :
                        ended \in {d1}})
    IN  The({IF ended.status # "running" THEN ended
             ELSE IF next # NULL /\ LoadBool(m0, next + IS_FREE_AT)
             THEN The({Merge(m1) :
                          m1 \in {IF Load(m0.mem, next + SIZE_AT)
                                       >= MMAP_MIN_BLOCK_SIZE
                                  THEN Mmap_remove_free_block(m0, next)
                                  ELSE m0}})
             ELSE m0 :
                ended \in {Deref(d, IF next # NULL
                                       /\ LoadBool(m0, next + IS_FREE_AT)
                                    THEN <<next + SIZE_AT>> ELSE <<>>)}})

\* The end of dealloc: a block alone in its region takes the region out of
\* the region list and back to the platform, any other block goes to the
\* free list.  region is what the block given to dealloc named as its
\* region; a Region that Box::from_raw has dropped is not to be read.
Mmap_unmap_or_insert(mn, block, region) ==
    LET d == Deref(mn, <<block + PREV_AT, block + NEXT_AT>>)
    IN  IF d.status # "running" THEN d
        ELSE IF /\ Load(mn.mem, block + PREV_AT) = NULL
                /\ Load(mn.mem, block + NEXT_AT) = NULL
        THEN IF region \notin DOMAIN mn.boxes
             THEN [mn EXCEPT !.status = "undefined"]
             ELSE
             LET prev_region == mn.boxes[region].prev
                 next_region == mn.boxes[region].next
                 boxes1 == [b \in DOMAIN mn.boxes |->
                              IF b = prev_region /\ b = next_region
                              THEN [mn.boxes[b] EXCEPT !.next = next_region,
                                                       !.prev = prev_region]
                              ELSE IF b = prev_region
                              THEN [mn.boxes[b] EXCEPT !.next = next_region]
                              ELSE IF b = next_region
                              THEN [mn.boxes[b] EXCEPT !.prev = prev_region]
                              ELSE mn.boxes[b]]
             IN  The({Mmap_release(m1, region) :
                        m1 \in {[mn EXCEPT
                                   !.boxes = boxes1,
                                   !.regions = IF prev_region # NULL THEN @
                                               ELSE next_region,
                                   !.len = @ - 1]}})
        ELSE Mmap_insert_free_block(mn, block)

\* MmapAllocator::dealloc.
Mmap_dealloc(m, ptr) ==
    IF ptr = NULL THEN m
    ELSE
    LET block0 == ptr - header_size
        d      == Deref(m, <<block0 + IS_FREE_AT>>)
        Merged(m0, region) ==
            The({The({Mmap_unmap_or_insert(mn, mp.block, region) :
                         mn \in {Mmap_merge_next(mp.m, mp.block)}}) :
                    mp \in {Mmap_merge_prev(m0, block0)}})
    IN  IF d.status # "running" THEN d
        ELSE IF LoadBool(m, block0 + IS_FREE_AT) THEN m
        ELSE Ended(m,
                 The({Merged(m0, Load(m0.mem, block0 + REGION_AT)) :
                         m0 \in {Deref([m EXCEPT
                                           !.mem = StoreBool(@, block0
                                                               + IS_FREE_AT, 1)],
                                       <<block0 + REGION_AT>>)}}))

(* ------------------------------ lib.rs -------------------------------- *)

\* mem::size_of::<Header>(): size, is_free (padded), next.
HEADER_SIZE == 24

\* Where the program break is before the first sbrk.
BreakBase == 4096

\* align of lib.rs: up to the next multiple of the word.
Bump_align(to_be_aligned) == AndNot(to_be_aligned + WORD - 1, WORD - 1)

\* The header at h can be read and written: it lies below the program
\* break, or it lies above it in memory that the lowering of the break left
\* in place (gone tells whether the platform took that memory away).
Bump_readable(b, h, gone) == h + HEADER_SIZE <= b.brk \/ ~gone

\* The loop of BumpAllocator::find_free_block from current on: the block
\* found, null, ENDLESS when the walk does not end, FAULT when it reads
\* memory that is gone.
RECURSIVE Bump_find_from(_, _, _, _, _)
Bump_find_from(b, current, size, gone, fuel) ==
    IF current = NULL THEN NULL
    ELSE IF fuel = 0 THEN ENDLESS
    ELSE IF ~Bump_readable(b, current, gone) THEN FAULT
    ELSE IF b.mem[current].size >= size /\ b.mem[current].is_free
    THEN current
    ELSE Bump_find_from(b, b.mem[current].next, size, gone, fuel - 1)

\* BumpAllocator::find_free_block.
Bump_find_free_block(b, size, gone) ==
    Bump_find_from(b, b.first, size, gone, WalkFuel)

\* BumpAllocator::alloc when no free block fits: the break is raised by
\* align(HEADER_SIZE + size) and the new header is linked after last.
Bump_alloc_grow(b, size, gone, grant) ==
    LET total_size == Bump_align(HEADER_SIZE + size)
        addr       == b.brk
        header     == addr
        mem1 == (header :> [size |-> size, is_free |-> FALSE, next |-> NULL])
                    @@ b.mem
        mem2 == IF b.first = NULL THEN mem1
                ELSE [mem1 EXCEPT ![b.last].next = header]
    IN  IF ~grant THEN [b |-> b, ret |-> NULL]
        ELSE IF header % WORD # 0
        THEN [b |-> [b EXCEPT !.status = "undefined"], ret |-> NULL]
        ELSE [b   |-> [b EXCEPT !.brk = @ + total_size,
                                !.mem = mem2,
                                !.first = IF @ = NULL THEN header ELSE @,
                                !.last = header],
              ret |-> addr + HEADER_SIZE]

\* BumpAllocator::alloc.  grant tells whether sbrk, if it is called, moves
\* the break; the header is written at the old break, and a header that is
\* not word-aligned is undefined behaviour.
Bump_alloc(b, size, gone, grant) ==
    The({IF free_block = FAULT
         THEN [b |-> [b EXCEPT !.status = "faulted"], ret |-> NULL]
         ELSE IF free_block = ENDLESS
         THEN [b |-> [b EXCEPT !.status = "hung"], ret |-> NULL]
         ELSE IF free_block # NULL
         THEN [b   |-> [b EXCEPT !.mem[free_block].is_free = FALSE],
               ret |-> free_block + HEADER_SIZE]
         ELSE Bump_alloc_grow(b, size, gone, grant) :
            free_block \in {Bump_find_free_block(b, size, gone)}})

\* The loop of BumpAllocator::free that looks for the block before last.
RECURSIVE Bump_before_last(_, _, _)
Bump_before_last(b, current, fuel) ==
    IF fuel = 0 THEN ENDLESS
    ELSE IF b.mem[current].next # NULL /\ b.mem[current].next # b.last
    THEN Bump_before_last(b, b.mem[current].next, fuel - 1)
    ELSE current

\* BumpAllocator::free.  The block is flagged free; if it is the last one
\* the list gives it up and the break is lowered by size + HEADER_SIZE,
\* computed as 0 - size - HEADER_SIZE on usize: with overflow checks
\* (checked) that subtraction panics, without them it wraps to the negative
\* increment that sbrk is given.
Bump_free(b, ptr, gone, checked) ==
    LET header == ptr - HEADER_SIZE
        b1     == [b EXCEPT !.mem[header].is_free = TRUE]
        before == Bump_before_last(b1, b1.first, WalkFuel)
        b2     == IF b1.first = b1.last
                  THEN [b1 EXCEPT !.first = NULL, !.last = NULL]
                  ELSE [b1 EXCEPT !.last = before]
    IN  IF ptr = NULL THEN b
        ELSE IF ~Bump_readable(b, header, gone)
        THEN [b EXCEPT !.status = "faulted"]
        ELSE IF header # b.last THEN b1
        ELSE IF b1.first # b1.last /\ before = ENDLESS
        THEN [b1 EXCEPT !.status = "hung"]
        ELSE IF checked THEN [b2 EXCEPT !.status = "panicked"]
        ELSE [b2 EXCEPT !.brk = @ - (b.mem[header].size + HEADER_SIZE)]

(* ------------------------------ state --------------------------------- *)

VARIABLES
    regions,      \* Kernel.regions: the region list, in link order
    free_list,    \* Kernel.free_list.items: the free-list index, in link order
    page_size,    \* Kernel.page_size, 0 until the first growth
    PAGE_SIZE,    \* the process-wide cached page size, 0 until first use
    mapped,       \* platform: base addresses of the pages currently mapped
    live,         \* caller: allocations returned and not yet deallocated
    ret,          \* pointer returned by the last allocate
    panicked,     \* the process has panicked
    ops,          \* number of calls made so far
    last,         \* what the last call was and what it met
    script,       \* progress of the caller along the triple-coalesce scenario
    freed,        \* caller: pointers deallocated and not returned again since
    faulted,      \* the process touched unmapped memory or ran on garbage
    scribbled,    \* the manager wrote into a payload a caller was holding
    lock,         \* the mutex of the facade: the thread that holds it, or 0
    pc,           \* where each thread is: "out", "in" (lock taken), "done"
    owns,         \* the allocations each thread holds
    nonzero,      \* byte ranges [lo, hi) of mapped memory that may be non-zero
    fill,         \* whether the last call was allocate_zeroed, the range it zeroed
    head,         \* List.head of a list used on its own
    tail,         \* List.tail
    len,          \* List.len
    nodes,        \* the memory the caller supplies for nodes, by address
    node_ref,     \* the node reference the last list call returned
    call,         \* what the last list call was and the list it met
    aligned,      \* the last call of align: its arguments and its result
    mm_regions,   \* MmapAllocator.regions: the first Region, or null
    mm_page_size, \* MmapAllocator.page_size
    mm_len,       \* MmapAllocator.len: number of regions
    mm_free_list, \* MmapAllocator.free_list: the first free block, or null
    mm_boxes,     \* the Region structs Box::new holds, by address
    mm_mem,       \* the words written in the mapped regions, by address
    mm_mapped,    \* platform: base addresses of the pages mmap handed out
    mm_live,      \* caller: pointers alloc returned and not yet given back
    mm_ret,       \* pointer returned by the last alloc
    mm_status,    \* "running", "panicked", "hung", "faulted" or "undefined"
    mm_script,    \* progress of the caller along alloc, dealloc, alloc, alloc
    step,         \* where a call followed step by step is, and what its last
                  \* internal call was given, met and answered
    platform,     \* the ranges request_memory handed out and return_memory
                  \* has not taken back, before and after the last internal
                  \* call, and the ranges that call passed to return_memory
    cache,        \* the static PAGE_SIZE, the page_size field and the mutex of
                  \* each allocator instance, where each calling thread is
    bump          \* a BumpAllocator, the program break and its caller

vars == <<regions, free_list, page_size, PAGE_SIZE, mapped, live, ret, panicked,
          ops, last, script, freed, faulted, scribbled, lock, pc, owns,
          nonzero, fill, head, tail, len, nodes, node_ref, call, aligned,
          mm_regions, mm_page_size, mm_len, mm_free_list, mm_boxes, mm_mem,
          mm_mapped, mm_live, mm_ret, mm_status, mm_script, step, platform,
          cache, bump>>

\* The variables of the free-space manager and of its callers.
heap_vars == <<regions, free_list, page_size, PAGE_SIZE, mapped, live, ret,
               panicked, last, script, freed, faulted, scribbled, lock, pc,
               owns, nonzero, fill>>

\* The variables of a list used on its own.
list_vars == <<head, tail, len, nodes, node_ref, call>>

\* The variables of a MmapAllocator and of its caller.
mmap_vars == <<mm_regions, mm_page_size, mm_len, mm_free_list, mm_boxes, mm_mem,
               mm_mapped, mm_live, mm_ret, mm_status, mm_script>>

\* The variables of the helpers and of the allocators that are used on
\* their own.
rest_vars == <<aligned, mmap_vars, step, platform, cache, bump>>

\* The threads that call allocate, and the allocator instances they call.
Callers == 1..MaxCallers

Instances == 1..MaxInstances

\* No thread has called any instance yet: PAGE_SIZE is the 0 of its
\* initializer, every instance has page_size 0 and a free mutex.
NoCache ==
    [PAGE_SIZE |-> 0,
     writes    |-> 0,
     page_size |-> [i \in Instances |-> 0],
     lock      |-> [i \in Instances |-> 0],
     pc        |-> [t \in Callers |-> "out"],
     self      |-> [t \in Callers |-> 0]]

\* No call of a BumpAllocator yet.
NoBumpCall == [op |-> "none", size |-> 0, ptr |-> NULL, was_last |-> FALSE,
               pre_brk |-> BreakBase, header |-> NULL]

\* BumpAllocator::new, the program break where the platform put it, and a
\* caller that holds nothing.  build is "checked" (arithmetic overflow
\* panics, as in a debug build), "wrapping" (it wraps, as in a release
\* build) or "any" as long as no overflow has shown which.
NoBump ==
    [first |-> NULL, last |-> NULL, mem |-> <<>>, brk |-> BreakBase,
     status |-> "running", build |-> "any", live |-> {}, ret |-> NULL,
     ops |-> 0, call |-> NoBumpCall]

\* The platform has handed out nothing.
NoRanges == [held |-> {}, pre |-> {}, returned |-> {}]

\* No call is being followed step by step.
NoStep ==
    [at |-> "idle", done |-> "none", size |-> 0, region |-> NULL,
     block |-> NULL, node |-> NULL, found |-> NULL, pre |-> <<>>]

\* The caller of a MmapAllocator has made no call yet.
NoScript == [n |-> 0, size |-> 0, p |-> NULL, addr |-> NULL, q |-> NULL,
             r |-> NULL]

\* The caller left the sequence alloc, dealloc, alloc, alloc.
OffScript == [NoScript EXCEPT !.n = -1]

\* No call of align yet.
NoAlign == [op |-> "none", to_be_aligned |-> 0, aligment |-> 1, result |-> 0]

\* No list call yet.
NoListCall ==
    [op |-> "none", addr |-> NULL, existing |-> NULL, data |-> 0, pre |-> <<>>]

\* The Kernel value.
Kernel == [regions |-> regions, free_list |-> free_list, page_size |-> page_size]

\* No call yet.
NoCall ==
    [op |-> "none", size |-> 0, ptr |-> NULL, grew |-> FALSE, failed |-> FALSE,
     clash |-> FALSE, blk |-> 0, kept |-> FALSE, merged_prev |-> FALSE,
     merged_next |-> FALSE, after_free |-> NULL, only_fit |-> FALSE,
     index_len |-> 0, pre |-> <<>>]

\* Kernel::new(): empty lists, page size not yet known.
Init ==
    /\ regions = <<>>
    /\ free_list = <<>>
    /\ page_size = 0
    /\ PAGE_SIZE = 0
    /\ mapped = {}
    /\ live = {}
    /\ ret = NULL
    /\ panicked = FALSE
    /\ ops = 0
    /\ last = NoCall
    /\ script = [n |-> 0, held |-> <<>>]
    /\ freed = {}
    /\ faulted = FALSE
    /\ scribbled = FALSE
    /\ lock = 0
    /\ pc = [t \in Threads |-> "out"]
    /\ owns = [t \in Threads |-> {}]
    /\ nonzero = {}
    /\ fill = [on |-> FALSE, lo |-> NULL, hi |-> NULL]
    /\ head = NULL
    /\ tail = NULL
    /\ len = 0
    /\ nodes = [a \in 1..MaxNodes |-> [next |-> NULL, prev |-> NULL, data |-> 0]]
    /\ node_ref = NULL
    /\ call = NoListCall
    /\ aligned = NoAlign
    /\ mm_regions = NULL
    /\ mm_page_size = SysPageSize
    /\ mm_len = 0
    /\ mm_free_list = NULL
    /\ mm_boxes = <<>>
    /\ mm_mem = <<>>
    /\ mm_mapped = {}
    /\ mm_live = {}
    /\ mm_ret = NULL
    /\ mm_status = "running"
    /\ mm_script = NoScript
    /\ step = NoStep
    /\ platform = NoRanges
    /\ cache = NoCache
    /\ bump = NoBump

\* The kernel becomes k.
SetKernel(k) ==
    /\ regions' = k.regions
    /\ free_list' = k.free_list
    /\ page_size' = k.page_size

\* The payload ranges [p, p + s) and [q, q + t) share a byte.
Overlap(p, s, q, t) == p < q + t /\ q < p + s

\* The size a request is rounded to.
Target(size) == Max(align(size, WORD), MIN_BLOCK_SIZE)

\* Some index entry other than the one of block is large enough for size.
OtherFits(k, block, size) ==
    \E i \in 1..Len(k.free_list) :
        /\ k.free_list[i].data # block
        /\ BlockAt(k.regions, k.free_list[i].data).size >= Target(size)

\* The caller follows the triple-coalesce scenario: four allocations of 128
\* bytes, deallocation of the first, the third, the second, one allocation of
\* 264 bytes.  n counts the calls that matched; -1 once the caller left it.
ScriptAfterAllocate(size, r) ==
    IF script.n \in 0..3 /\ size = 128 /\ r # NULL
    THEN [n |-> script.n + 1, held |-> Append(script.held, r)]
    ELSE IF script.n = 7 /\ size = 264
         THEN [script EXCEPT !.n = 8]
         ELSE [n |-> -1, held |-> <<>>]

ScriptAfterDeallocate(p) ==
    IF \/ script.n = 4 /\ p = script.held[1]
       \/ script.n = 5 /\ p = script.held[3]
       \/ script.n = 6 /\ p = script.held[2]
    THEN [script EXCEPT !.n = @ + 1]
    ELSE [n |-> -1, held |-> <<>>]

\* A caller that holds fewer than cap allocations asks for size bytes.
Allocate(size, cap) ==
    /\ ~panicked
    /\ Cardinality(live) < cap
    /\ LET grows == find_free_block(Kernel, size) = NULL
           length == region_size(size,
                                 with_page_size(Kernel, PAGE_SIZE).page_size)
       IN  \E addr \in (IF grows THEN request_memory(mapped, length) ELSE {NULL}) :
             \E r \in {allocate(Kernel, PAGE_SIZE, size, addr)} :
                 /\ SetKernel(r.k)
                 /\ PAGE_SIZE' = IF grows /\ page_size = 0
                                 THEN cached_page_size(PAGE_SIZE) ELSE PAGE_SIZE
                 /\ mapped' = IF r.grew THEN mapped \cup PagesOf(addr, length)
                              ELSE mapped
                 /\ panicked' = r.panic
                 /\ ret' = IF r.panic THEN ret ELSE r.ret
                 /\ live' = IF r.ret = NULL THEN live
                            ELSE live \cup {[ptr |-> r.ret, size |-> size]}
                 /\ script' = IF r.panic THEN [n |-> -1, held |-> <<>>]
                              ELSE ScriptAfterAllocate(size, r.ret)
                 /\ last' = [NoCall EXCEPT
                      !.op = "alloc",
                      !.size = size,
                      !.grew = r.grew,
                      !.failed = grows /\ addr = NULL,
                      !.clash = r.ret # NULL /\
                                \E a \in live :
                                    Overlap(a.ptr, a.size, r.ret, size),
                      !.after_free =
                          IF /\ last.op = "dealloc" /\ last.kept
                             /\ Target(size) <= last.blk
                          THEN last.ptr ELSE NULL,
                      !.only_fit =
                          /\ ~last.merged_prev
                          /\ ~OtherFits(Kernel, last.ptr - BLOCK_HEADER_SIZE, size),
                      !.index_len = Len(free_list),
                      !.pre = IF grows /\ addr = NULL THEN <<Kernel>> ELSE <<>>]

\* A caller gives back an allocation it holds.
Deallocate(a) ==
    /\ ~panicked
    /\ a \in live
    /\ \E d \in {deallocate(Kernel, a.ptr)} :
       LET block == a.ptr - BLOCK_HEADER_SIZE
           b     == BlockAt(regions, block)
       IN  /\ SetKernel(d.k)
           /\ mapped' = IF d.returned = {} THEN mapped
                        ELSE LET r == CHOOSE r \in d.returned : TRUE
                             IN  return_memory(mapped, r.addr, r.len)
           /\ last' = [NoCall EXCEPT
                !.op = "dealloc",
                !.ptr = a.ptr,
                !.blk = b.size,
                !.kept = d.returned = {},
                !.merged_prev = d.node # block,
                !.merged_next =
                    LET i == RegionIndex(regions, b.region)
                        j == BlockIndex(regions[i].blocks, block)
                    IN  j < Len(regions[i].blocks) /\ regions[i].blocks[j + 1].is_free]
    /\ live' = live \ {a}
    /\ script' = ScriptAfterDeallocate(a.ptr)
    /\ UNCHANGED <<PAGE_SIZE, ret, panicked>>

\* The byte ranges [lo1, hi1) and [lo2, hi2) share a byte.
Meets(lo1, hi1, lo2, hi2) == lo1 < hi2 /\ lo2 < hi1

\* The block headers of the regions of regs that are not the same in other.
TouchedHeaders(regs, other) ==
    UNION {{<<regs[i].blocks[j].addr,
              regs[i].blocks[j].addr + BLOCK_HEADER_SIZE>> :
               j \in 1..Len(regs[i].blocks)} :
           i \in {n \in 1..Len(regs) :
                     \A m \in 1..Len(other) : other[m] # regs[n]}}

\* Byte ranges the manager writes while it takes the kernel from k0 to k1.
\* Every write is a write of a list node or of a field of one (Node::next,
\* Node::prev, Block::size, Block::is_free, the List in a region header):
\* the block headers of each region whose block list changed, the region
\* headers when the region list or a block list changed, the free-index
\* nodes when the index changed, and the index node that a new region's
\* first block carries between allocate_new_region and take_from_block.
Writes(k0, k1) ==
    LET headers == TouchedHeaders(k0.regions, k1.regions) \cup
                   TouchedHeaders(k1.regions, k0.regions)
        rheads  == IF k0.regions = k1.regions THEN {}
                   ELSE {<<k0.regions[i].addr,
                           k0.regions[i].addr + REGION_HEADER_SIZE>> :
                              i \in 1..Len(k0.regions)} \cup
                        {<<k1.regions[i].addr,
                           k1.regions[i].addr + REGION_HEADER_SIZE>> :
                              i \in 1..Len(k1.regions)}
        inodes  == IF k0.free_list = k1.free_list THEN {}
                   ELSE {<<k0.free_list[i].at,
                           k0.free_list[i].at + MIN_BLOCK_SIZE>> :
                              i \in 1..Len(k0.free_list)} \cup
                        {<<k1.free_list[i].at,
                           k1.free_list[i].at + MIN_BLOCK_SIZE>> :
                              i \in 1..Len(k1.free_list)}
        first   == {<<k1.regions[i].addr + REGION_HEADER_SIZE + BLOCK_HEADER_SIZE,
                      k1.regions[i].addr + REGION_HEADER_SIZE + BLOCK_HEADER_SIZE
                          + MIN_BLOCK_SIZE>> :
                       i \in {n \in 1..Len(k1.regions) :
                                 \A m \in 1..Len(k0.regions) :
                                     k0.regions[m].addr # k1.regions[n].addr}}
    IN  headers \cup rheads \cup inodes \cup first

\* The call that is being made wrote into the payload of an allocation the
\* caller held before the call and still holds after it.
Watch ==
    scribbled' =
        \/ scribbled
        \/ \E a \in live \cap live' :
              \E w \in Writes(Kernel, [regions   |-> regions',
                                        free_list |-> free_list',
                                        page_size |-> page_size']) :
                  Meets(w[1], w[2], a.ptr, a.ptr + a.size)

\* The 40 bytes before the stale pointer p may no longer hold the header
\* that deallocate(p) flagged free: their page was unmapped, or a caller's
\* payload, another block header, a region header or a free-index node has
\* been laid over them.
Rewritten(p, regs, fl, lv, map) ==
    LET lo == p - BLOCK_HEADER_SIZE
    IN  \/ PageOf(lo) \notin map
        \/ \E a \in lv : Meets(lo, p, a.ptr, a.ptr + a.size)
        \/ \E b \in AllBlocks(regs) :
              b.addr # lo /\ Meets(lo, p, b.addr, b.addr + BLOCK_HEADER_SIZE)
        \/ \E i \in 1..Len(regs) :
              Meets(lo, p, regs[i].addr, regs[i].addr + REGION_HEADER_SIZE)
        \/ \E i \in 1..Len(fl) :
              Meets(lo, p, fl[i].at, fl[i].at + MIN_BLOCK_SIZE)

\* The caller remembers the pointers of new as deallocated, forgets the one
\* the call returned, and the bytes before each remembered pointer age.
Track(new) ==
    freed' = {[ptr   |-> f.ptr,
               dirty |-> f.dirty \/
                         Rewritten(f.ptr, regions', free_list', live', mapped')] :
              f \in {g \in freed \cup {[ptr |-> q, dirty |-> FALSE] : q \in new} :
                        \A a \in live' : a.ptr # g.ptr}}

\* The caller keeps no record of the pointers it gave back.
Forget == freed' = {} /\ UNCHANGED faulted

\* What the is_free read of deallocate(f.ptr) meets for a pointer f that was
\* already deallocated: "fault" when the page is no longer mapped, the flag
\* of the header when a block header is still there, the flag the first
\* deallocate left when the bytes are untouched, anything when they are not.
HeaderRead(f) ==
    LET block == f.ptr - BLOCK_HEADER_SIZE
        here  == {b \in AllBlocks(regions) : b.addr = block}
    IN  IF PageOf(block) \notin mapped THEN {"fault"}
        ELSE IF here # {}
             THEN {IF b.is_free THEN "free" ELSE "used" : b \in here}
             ELSE IF f.dirty THEN {"free", "used"} ELSE {"free"}

\* A caller deallocates again a pointer it already gave back.  The header
\* is read through the pointer; a set flag makes the call return at once,
\* a read of unmapped memory or a clear flag on bytes that are no header
\* ends the run.
DeallocateAgain(f) ==
    /\ ~panicked
    /\ ~faulted
    /\ f \in freed
    /\ \E seen \in HeaderRead(f) : faulted' = (seen # "free")
    /\ last' = [NoCall EXCEPT !.op = "refree", !.ptr = f.ptr, !.pre = <<Kernel>>]
    /\ UNCHANGED <<regions, free_list, page_size, PAGE_SIZE, mapped, live, ret,
                   panicked, script, freed, scribbled, lock, pc, owns,
                   nonzero, fill, list_vars, rest_vars>>

\* A caller deallocates the null pointer.
DeallocateNull ==
    /\ ~panicked
    /\ ~faulted
    /\ \E d \in {deallocate(Kernel, NULL)} :
          /\ SetKernel(d.k)
          /\ mapped' = IF d.returned = {} THEN mapped
                       ELSE LET r == CHOOSE r \in d.returned : TRUE
                            IN  return_memory(mapped, r.addr, r.len)
    /\ last' = [NoCall EXCEPT !.op = "free_null", !.pre = <<Kernel>>]
    /\ UNCHANGED <<PAGE_SIZE, live, ret, panicked, script, freed, faulted,
                   scribbled, lock, pc, owns, nonzero, fill, list_vars, rest_vars>>

\* The List value.
TheList == [head |-> head, tail |-> tail, len |-> len]

\* The nodes of the list, in iteration order.
Elements == Iter(head, nodes, MaxNodes + 1)

\* The list and the memory become those of the result r of a list call.
SetList(r) ==
    /\ head' = r.list.head
    /\ tail' = r.list.tail
    /\ len' = r.list.len
    /\ nodes' = r.mem
    /\ node_ref' = r.node

\* What the list call that is being made meets.
Met == [head |-> head, tail |-> tail, len |-> len, nodes |-> nodes]

\* The caller appends the datum data in a node it places at addr, memory
\* that no node of the list occupies.
ListAppend(data, addr) ==
    /\ \A i \in 1..Len(Elements) : Elements[i] # addr
    /\ \E r \in {List_append(TheList, nodes, data, addr)} : SetList(r)
    /\ call' = [NoListCall EXCEPT !.op = "append", !.addr = addr,
                                  !.data = data, !.pre = <<Met>>]
    /\ UNCHANGED <<heap_vars, rest_vars>>

\* The caller inserts the datum data after the node existing of the list,
\* in a node it places at addr, memory that no node of the list occupies.
ListInsertAfter(existing, data, addr) ==
    /\ \E i \in 1..Len(Elements) : Elements[i] = existing
    /\ \A i \in 1..Len(Elements) : Elements[i] # addr
    /\ \E r \in {List_insert_after(TheList, nodes, existing, data, addr)} :
          SetList(r)
    /\ call' = [NoListCall EXCEPT !.op = "insert_after", !.addr = addr,
                                  !.existing = existing, !.data = data,
                                  !.pre = <<Met>>]
    /\ UNCHANGED <<heap_vars, rest_vars>>

\* The caller removes the node existing of the list.
ListRemove(existing) ==
    /\ \E i \in 1..Len(Elements) : Elements[i] = existing
    /\ \E r \in {List_remove(TheList, nodes, existing)} : SetList(r)
    /\ call' = [NoListCall EXCEPT !.op = "remove", !.existing = existing,
                                  !.pre = <<Met>>]
    /\ UNCHANGED <<heap_vars, rest_vars>>

\* 2^e.
RECURSIVE Pow2(_)
Pow2(e) == IF e = 0 THEN 1 ELSE 2 * Pow2(e - 1)

\* A caller aligns to_be_aligned to aligment.
Align(to_be_aligned, aligment) ==
    /\ aligned' = [op            |-> "align",
                   to_be_aligned |-> to_be_aligned,
                   aligment      |-> aligment,
                   result        |-> align(to_be_aligned, aligment)]
    /\ UNCHANGED <<heap_vars, list_vars, ops, mmap_vars, step, platform, cache, bump>>

\* The MmapAllocator value with the memory it works on.
Mmap ==
    [regions |-> mm_regions, page_size |-> mm_page_size, len |-> mm_len,
     free_list |-> mm_free_list, boxes |-> mm_boxes, mem |-> mm_mem,
     mapped |-> mm_mapped, status |-> mm_status, junk |-> FALSE]

\* The allocator and its memory become m.
SetMmap(m) ==
    /\ mm_regions' = m.regions
    /\ mm_page_size' = m.page_size
    /\ mm_len' = m.len
    /\ mm_free_list' = m.free_list
    /\ mm_boxes' = m.boxes
    /\ mm_mem' = m.mem
    /\ mm_mapped' = m.mapped
    /\ mm_status' = m.status

\* Addresses at which Box::new can place a Region.
Boxes == 1..MmapPages

\* The caller follows p = alloc(L), dealloc(p), q = alloc(L), r = alloc(L)
\* on a fresh allocator; addr is what mmap answered to the third call.
MmapScriptAfterAlloc(size, ptr, addr) ==
    IF mm_script.n = 0 /\ ptr # NULL
    THEN [NoScript EXCEPT !.n = 1, !.size = size, !.p = ptr]
    ELSE IF mm_script.n = 2 /\ size = mm_script.size /\ ptr # NULL
    THEN [mm_script EXCEPT !.n = 3, !.q = ptr, !.addr = addr]
    ELSE IF mm_script.n = 3 /\ size = mm_script.size
    THEN [mm_script EXCEPT !.n = 4, !.r = ptr]
    ELSE OffScript

MmapScriptAfterDealloc(ptr) ==
    IF mm_script.n = 1 /\ ptr = mm_script.p
    THEN [mm_script EXCEPT !.n = 2]
    ELSE OffScript

\* A caller that holds fewer than MmapLive blocks calls alloc(size).
MmapAlloc(size) ==
    /\ mm_status = "running"
    /\ Cardinality(mm_live) < MmapLive
    /\ LET grows  == find_block(Mmap, size) = NULL
           length == Mmap_region_size(size, mm_page_size)
       IN  \E addr \in (IF grows THEN mmap(mm_mapped, length) ELSE {NULL}) :
           \E region_ptr \in (IF grows /\ addr # NULL
                              THEN Boxes \ DOMAIN mm_boxes ELSE {NULL}) :
           \E junk \in BOOLEAN :
           \E a \in {Mmap_alloc([Mmap EXCEPT !.junk = junk], size, addr,
                                region_ptr)} :
               /\ SetMmap(a.m)
               /\ mm_ret' = IF a.m.status = "running" THEN a.ret ELSE mm_ret
               /\ mm_live' = IF a.m.status = "running" /\ a.ret # NULL
                             THEN mm_live \cup {a.ret}
                             ELSE mm_live
               /\ mm_script' = IF a.m.status = "running"
                               THEN MmapScriptAfterAlloc(size, a.ret, addr)
                               ELSE OffScript
    /\ UNCHANGED <<heap_vars, list_vars, aligned, step, platform, cache, bump>>

\* A caller gives back a block it holds.
MmapDealloc(ptr) ==
    /\ mm_status = "running"
    /\ ptr \in mm_live
    /\ \E junk \in BOOLEAN :
       \E m \in {Mmap_dealloc([Mmap EXCEPT !.junk = junk], ptr)} :
           /\ SetMmap(m)
           /\ mm_live' = IF m.status = "running" THEN mm_live \ {ptr}
                         ELSE mm_live
           /\ mm_script' = IF m.status = "running"
                           THEN MmapScriptAfterDealloc(ptr)
                           ELSE OffScript
    /\ UNCHANGED <<mm_ret, heap_vars, list_vars, aligned, step, platform, cache, bump>>

\* What an internal call of allocate or deallocate leaves alone.
StepFrame ==
    UNCHANGED <<last, script, freed, faulted, scribbled, lock, pc, owns,
                nonzero, fill, list_vars, aligned, mmap_vars, cache, bump>>

\* allocate(size) begins, or goes on after the heap grew: the index is
\* searched.  A second search that finds nothing makes allocate return null.
StepFindFreeBlock(size) ==
    /\ ~panicked
    /\ step.at \in {"idle", "grown"}
    /\ step.at = "idle" => Cardinality(live) < StepLive
    /\ step.at = "grown" => size = step.size
    /\ LET found == find_free_block(Kernel, size)
       IN  /\ step' = [NoStep EXCEPT
                         !.at = IF found # NULL THEN "found"
                                ELSE IF step.at = "idle" THEN "grow"
                                ELSE "idle",
                         !.done = "find_free_block",
                         !.size = size,
                         !.found = found,
                         !.pre = <<Kernel>>]
           /\ ret' = IF found = NULL /\ step.at = "grown" THEN NULL ELSE ret
    /\ UNCHANGED <<regions, free_list, page_size, PAGE_SIZE, mapped, live,
                   panicked>>
    /\ platform' = [platform EXCEPT !.pre = platform.held, !.returned = {}]
    /\ StepFrame

\* allocate found no block: allocate_new_region.
StepAllocateNewRegion ==
    /\ ~panicked
    /\ step.at = "grow"
    /\ LET k0     == with_page_size(Kernel, PAGE_SIZE)
           length == region_size(step.size, k0.page_size)
       IN  \E addr \in request_memory(mapped, length) :
              /\ SetKernel(IF addr = NULL THEN k0
                           ELSE allocate_new_region(k0, step.size, addr))
              /\ PAGE_SIZE' = IF page_size = 0 THEN cached_page_size(PAGE_SIZE)
                              ELSE PAGE_SIZE
              /\ mapped' = IF addr = NULL THEN mapped
                           ELSE mapped \cup PagesOf(addr, length)
              /\ panicked' = (addr = NULL)
              /\ platform' =
                    [held     |-> IF addr = NULL THEN platform.held
                                  ELSE platform.held \cup
                                       {[addr |-> addr, len |-> length]},
                     pre      |-> platform.held,
                     returned |-> {}]
              /\ step' = [NoStep EXCEPT
                            !.at = IF addr = NULL THEN "idle" ELSE "grown",
                            !.done = "allocate_new_region",
                            !.size = step.size,
                            !.region = addr,
                            !.pre = <<Kernel>>]
    /\ UNCHANGED <<live, ret>>
    /\ StepFrame

\* allocate found a block: take_from_block, and allocate returns.
StepTakeFromBlock ==
    /\ ~panicked
    /\ step.at = "found"
    /\ \E t \in {take_from_block(Kernel, step.found, step.size)} :
          /\ SetKernel(t.k)
          /\ ret' = t.ret
          /\ live' = live \cup {[ptr |-> t.ret, size |-> step.size]}
    /\ step' = [NoStep EXCEPT !.done = "take_from_block",
                              !.size = step.size,
                              !.block = step.found,
                              !.node = step.found,
                              !.pre = <<Kernel>>]
    /\ UNCHANGED <<PAGE_SIZE, mapped, panicked>>
    /\ platform' = [platform EXCEPT !.pre = platform.held, !.returned = {}]
    /\ StepFrame

\* deallocate(a.ptr) begins: the header is recovered and flagged free.
StepFlagFree(a) ==
    /\ ~panicked
    /\ step.at = "idle"
    /\ a \in live
    /\ LET block == a.ptr - BLOCK_HEADER_SIZE
           b     == BlockAt(regions, block)
       IN  /\ regions' = WriteBlock(regions, block, [b EXCEPT !.is_free = TRUE])
           /\ step' = [NoStep EXCEPT !.at = "flagged",
                                     !.done = "flag",
                                     !.region = b.region,
                                     !.block = block,
                                     !.node = block,
                                     !.pre = <<Kernel>>]
    /\ live' = live \ {a}
    /\ UNCHANGED <<free_list, page_size, PAGE_SIZE, mapped, ret, panicked>>
    /\ platform' = [platform EXCEPT !.pre = platform.held, !.returned = {}]
    /\ StepFrame

\* deallocate goes on: merge_with_prev on the handle.
StepMergeWithPrev ==
    /\ step.at = "flagged"
    /\ \E m \in {merge_with_prev(Kernel, step.region, step.node)} :
          /\ SetKernel(m.k)
          /\ step' = [step EXCEPT !.at = "merged_prev",
                                  !.done = "merge_with_prev",
                                  !.block = step.node,
                                  !.node = m.node,
                                  !.pre = <<Kernel>>]
    /\ UNCHANGED <<PAGE_SIZE, mapped, live, ret, panicked>>
    /\ platform' = [platform EXCEPT !.pre = platform.held, !.returned = {}]
    /\ StepFrame

\* deallocate goes on: merge_with_next on the handle.
StepMergeWithNext ==
    /\ step.at = "merged_prev"
    /\ \E m \in {merge_with_next(Kernel, step.region, step.node)} :
          /\ SetKernel(m.k)
          /\ step' = [step EXCEPT !.at = "merged_next",
                                  !.done = "merge_with_next",
                                  !.block = step.node,
                                  !.node = m.node,
                                  !.pre = <<Kernel>>]
    /\ UNCHANGED <<PAGE_SIZE, mapped, live, ret, panicked>>
    /\ platform' = [platform EXCEPT !.pre = platform.held, !.returned = {}]
    /\ StepFrame

\* deallocate ends: check_region_removal on the region and the handle.
StepCheckRegionRemoval ==
    /\ step.at = "merged_next"
    /\ \E c \in {check_region_removal(Kernel, step.region, step.node)} :
          /\ SetKernel(c.k)
          /\ mapped' = IF c.returned = {} THEN mapped
                       ELSE LET r == CHOOSE r \in c.returned : TRUE
                            IN  return_memory(mapped, r.addr, r.len)
          /\ platform' = [held     |-> platform.held \ c.returned,
                          pre      |-> platform.held,
                          returned |-> c.returned]
    /\ step' = [step EXCEPT !.at = "idle",
                            !.done = "check_region_removal",
                            !.block = step.node,
                            !.pre = <<Kernel>>]
    /\ UNCHANGED <<PAGE_SIZE, live, ret, panicked>>
    /\ StepFrame

\* One more call, in a run of at most limit calls.
Tick(limit) ==
    /\ ops < limit
    /\ ops' = ops + 1

\* The caller is a single thread.
Solo == UNCHANGED <<lock, pc, owns>>

\* The call is a plain allocate or deallocate whose callers' bytes are not
\* followed, and no list is used on its own.
Aside == UNCHANGED <<nonzero, fill, list_vars, rest_vars>>

\* The ranges of ws with the bytes of [lo, hi) taken out.
Cut(ws, lo, hi) ==
    {<<w[1], IF w[2] < lo THEN w[2] ELSE lo>> : w \in {v \in ws : v[1] < lo}}
    \cup
    {<<IF w[1] > hi THEN w[1] ELSE hi, w[2]>> : w \in {v \in ws : hi < v[2]}}

\* Bytes after a call.  The manager's writes may leave any value, the bytes
\* of an unmapped page are gone.  When the call is allocate_zeroed and the
\* normal allocate path returned p, size zero bytes are written from p on;
\* the caller of a plain allocate fills its size bytes with its own data.
Fill(zeroed) ==
    LET k1   == [regions |-> regions', free_list |-> free_list',
                 page_size |-> page_size']
        aged == {w \in nonzero \cup Writes(Kernel, k1) : PageOf(w[1]) \in mapped'}
        new  == live' \ live
    IN  IF new = {} \/ panicked'
        THEN /\ nonzero' = aged
             /\ fill' = [on |-> zeroed, lo |-> NULL, hi |-> NULL]
        ELSE \E a \in new :
               /\ nonzero' = IF zeroed THEN Cut(aged, a.ptr, a.ptr + a.size)
                             ELSE aged \cup {<<a.ptr, a.ptr + a.size>>}
               /\ fill' = IF zeroed
                          THEN [on |-> TRUE, lo |-> a.ptr, hi |-> a.ptr + a.size]
                          ELSE [on |-> FALSE, lo |-> NULL, hi |-> NULL]

\* A mutex anybody can take at any time.
Enter_unguarded(t) ==
    /\ pc[t] = "out"
    /\ lock' = t
    /\ pc' = [pc EXCEPT ![t] = "in"]
    /\ UNCHANGED <<regions, free_list, page_size, PAGE_SIZE, mapped, live, ret,
                   panicked, ops, last, script, freed, faulted, scribbled, owns,
                   nonzero, fill, list_vars, rest_vars>>

\* Entry of allocate or deallocate: the thread takes the mutex, waiting as
\* long as another thread holds it.
Enter(t) ==
    /\ pc[t] = "out"
    /\ lock = 0
    /\ lock' = t
    /\ pc' = [pc EXCEPT ![t] = "in"]
    /\ UNCHANGED <<regions, free_list, page_size, PAGE_SIZE, mapped, live, ret,
                   panicked, ops, last, script, freed, faulted, scribbled, owns,
                   nonzero, fill, list_vars, rest_vars>>

\* The thread that holds the mutex runs the manager's allocate.
ThreadAllocate(t, size) ==
    /\ pc[t] = "in"
    /\ Tick(ThreadOps)
    /\ Allocate(size, ThreadLive)
    /\ owns' = [owns EXCEPT ![t] = @ \cup (live' \ live)]
    /\ pc' = [pc EXCEPT ![t] = "done"]
    /\ UNCHANGED lock

\* The thread that holds the mutex runs the manager's deallocate on one of
\* its allocations.
ThreadDeallocate(t, a) ==
    /\ pc[t] = "in"
    /\ a \in owns[t]
    /\ Tick(ThreadOps)
    /\ Deallocate(a)
    /\ owns' = [owns EXCEPT ![t] = @ \ {a}]
    /\ pc' = [pc EXCEPT ![t] = "done"]
    /\ UNCHANGED lock

\* Return of allocate or deallocate: the mutex is dropped.
Leave(t) ==
    /\ pc[t] = "done"
    /\ lock' = 0
    /\ pc' = [pc EXCEPT ![t] = "out"]
    /\ UNCHANGED <<regions, free_list, page_size, PAGE_SIZE, mapped, live, ret,
                   panicked, ops, last, script, freed, faulted, scribbled, owns,
                   nonzero, fill, list_vars, rest_vars>>

Next ==
    \/ \E size \in Sizes :
          Tick(MaxOps) /\ Allocate(size, MaxLive) /\ Forget /\ Watch /\ Solo /\ Aside
    \/ \E a \in live :
          Tick(MaxOps) /\ Deallocate(a) /\ Forget /\ Watch /\ Solo /\ Aside

Spec == Init /\ [][Next]_vars

\* Runs long enough for the triple-coalesce scenario, with its sizes.
NextScenario ==
    \/ \E size \in ScenarioSizes :
          /\ Tick(ScenarioOps) /\ Allocate(size, ScenarioLive)
          /\ Forget /\ Watch /\ Solo /\ Aside
    \/ \E a \in live :
          Tick(ScenarioOps) /\ Deallocate(a) /\ Forget /\ Watch /\ Solo /\ Aside

SpecScenario == Init /\ [][NextScenario]_vars

\* Callers that also deallocate the null pointer and pointers they already
\* gave back.
NextFree ==
    \/ \E size \in FreeSizes :
          /\ ~faulted
          /\ Tick(FreeOps) /\ Allocate(size, FreeLive)
          /\ Track({}) /\ UNCHANGED faulted /\ Watch /\ Solo /\ Aside
    \/ \E a \in live :
          /\ ~faulted
          /\ Tick(FreeOps) /\ Deallocate(a)
          /\ Track({a.ptr}) /\ UNCHANGED faulted /\ Watch /\ Solo /\ Aside
    \/ \E f \in freed : Tick(FreeOps) /\ DeallocateAgain(f)
    \/ Tick(FreeOps) /\ DeallocateNull

SpecFree == Init /\ [][NextFree]_vars

\* Threads that call allocate and deallocate through the locked facade.
NextThreads ==
    \/ \E t \in Threads : Enter(t)
    \/ \E t \in Threads : \E size \in ThreadSizes :
          ThreadAllocate(t, size) /\ Forget /\ Watch /\ Aside
    \/ \E t \in Threads : \E a \in owns[t] :
          ThreadDeallocate(t, a) /\ Forget /\ Watch /\ Aside
    \/ \E t \in Threads : Leave(t)

SpecThreads == Init /\ [][NextThreads]_vars

\* Callers that use allocate_zeroed next to allocate and deallocate.
NextZero ==
    \/ \E size \in ZeroSizes :
          /\ Tick(ZeroOps) /\ Allocate(size, ZeroLive)
          /\ Fill(TRUE) /\ Forget /\ Watch /\ Solo /\ UNCHANGED <<list_vars, rest_vars>>
    \/ \E size \in ZeroSizes :
          /\ Tick(ZeroOps) /\ Allocate(size, ZeroLive)
          /\ Fill(FALSE) /\ Forget /\ Watch /\ Solo /\ UNCHANGED <<list_vars, rest_vars>>
    \/ \E a \in live :
          /\ Tick(ZeroOps) /\ Deallocate(a)
          /\ Fill(FALSE) /\ Forget /\ Watch /\ Solo /\ UNCHANGED <<list_vars, rest_vars>>

SpecZero == Init /\ [][NextZero]_vars

\* A caller of a list used on its own; the n-th call stores the datum n.
NextList ==
    \/ \E addr \in 1..MaxNodes : Tick(ListOps) /\ ListAppend(ops + 1, addr)
    \/ \E existing, addr \in 1..MaxNodes :
          Tick(ListOps) /\ ListInsertAfter(existing, ops + 1, addr)
    \/ \E existing \in 1..MaxNodes : Tick(ListOps) /\ ListRemove(existing)

SpecList == Init /\ [][NextList]_vars

\* One call of align, with any value up to MaxInput and any power of two up
\* to 2^MaxShift.
NextAlign ==
    /\ aligned.op = "none"
    /\ \E to_be_aligned \in 0..MaxInput : \E e \in 0..MaxShift :
          Align(to_be_aligned, Pow2(e))

SpecAlign == Init /\ [][NextAlign]_vars

\* A caller of a MmapAllocator.
NextMmap ==
    \/ \E size \in MmapSizes : Tick(MmapOps) /\ MmapAlloc(size)
    \/ \E ptr \in mm_live : Tick(MmapOps) /\ MmapDealloc(ptr)

SpecMmap == Init /\ [][NextMmap]_vars

\* allocate and deallocate followed one internal call at a time.
NextSteps ==
    \/ \E size \in StepSizes :
          /\ IF step.at = "idle" THEN Tick(StepOps) ELSE UNCHANGED ops
          /\ StepFindFreeBlock(size)
    \/ StepAllocateNewRegion /\ UNCHANGED ops
    \/ StepTakeFromBlock /\ UNCHANGED ops
    \/ \E a \in live : Tick(StepOps) /\ StepFlagFree(a)
    \/ StepMergeWithPrev /\ UNCHANGED ops
    \/ StepMergeWithNext /\ UNCHANGED ops
    \/ StepCheckRegionRemoval /\ UNCHANGED ops

SpecSteps == Init /\ [][NextSteps]_vars

(* ---------------------- calls that never stop --------------------------- *)

\* What calling, waiting for the mutex and returning leave alone.
LockFrame ==
    UNCHANGED <<regions, free_list, page_size, PAGE_SIZE, mapped, live, ret,
                panicked, ops, last, script, freed, faulted, scribbled, owns,
                nonzero, fill, list_vars, rest_vars>>

\* The threads that have called allocate and have not got its result yet.
Allocating == {u \in Threads : pc[u] \in {"wants_alloc", "alloc"}}

\* Thread t calls allocate (the callers hold LiveLive allocations at most)
\* or deallocate (of an allocation it holds): it comes to the lock() of the
\* facade.
Call(t) ==
    /\ ~panicked
    /\ pc[t] = "out"
    /\ \/ /\ Cardinality(live) + Cardinality(Allocating) < LiveLive
          /\ pc' = [pc EXCEPT ![t] = "wants_alloc"]
       \/ /\ owns[t] # {}
          /\ pc' = [pc EXCEPT ![t] = "wants_free"]
    /\ UNCHANGED lock
    /\ LockFrame

\* A lock() that never answers.
Acquire_never(t) ==
    /\ pc[t] \in {"wants_alloc", "wants_free"}
    /\ lock = 0
    /\ UNCHANGED <<lock, pc>>
    /\ LockFrame

\* lock() answers: the mutex was free and the thread holds it now.
Acquire(t) ==
    /\ ~panicked
    /\ pc[t] \in {"wants_alloc", "wants_free"}
    /\ lock = 0
    /\ lock' = t
    /\ pc' = [pc EXCEPT ![t] = IF pc[t] = "wants_alloc" THEN "alloc" ELSE "free"]
    /\ LockFrame

\* The thread that holds the mutex runs the manager's allocate or
\* deallocate to its end.
Run(t) ==
    /\ lock = t
    /\ \/ /\ pc[t] = "alloc"
          /\ \E size \in LiveSizes : Allocate(size, LiveLive)
          /\ owns' = [owns EXCEPT ![t] = @ \cup (live' \ live)]
       \/ /\ pc[t] = "free"
          /\ \E a \in owns[t] : Deallocate(a)
          /\ owns' = [owns EXCEPT ![t] = @ \ (live \ live')]
    /\ pc' = [pc EXCEPT ![t] = "done"]
    /\ Forget /\ Watch /\ Aside
    /\ UNCHANGED <<lock, ops>>

\* Threads that go on calling allocate and deallocate for ever.
NextLive ==
    \/ \E t \in Threads : Call(t)
    \/ \E t \in Threads : Acquire(t)
    \/ \E t \in Threads : Run(t)
    \/ \E t \in Threads : Leave(t)

\* A thread that can take a step of the call it is in, and goes on being able
\* to, takes it: the scheduler runs every thread, and a mutex that stays free
\* is handed to a thread that waits for it.
FairLive ==
    \A t \in Threads :
        WF_vars(Acquire(t)) /\ WF_vars(Run(t)) /\ WF_vars(Leave(t))

SpecLive == Init /\ [][NextLive]_vars /\ FairLive

(* --------------------------- BumpAllocator ---------------------------- *)

\* Everything but the BumpAllocator and its caller.
BumpFrame == UNCHANGED <<heap_vars, ops, list_vars, aligned, mmap_vars, step,
                         platform, cache>>

\* The builds the program may be: the one an overflow has shown, or either.
Builds == IF bump.build = "any" THEN {"checked", "wrapping"} ELSE {bump.build}

\* A caller that holds fewer than BumpLive blocks asks for size bytes.
BumpAlloc(size) ==
    /\ bump.status = "running"
    /\ bump.ops < BumpOps
    /\ Cardinality(bump.live) < BumpLive
    /\ \E gone \in BOOLEAN :
       \E grant \in {bump.brk + Bump_align(HEADER_SIZE + size)
                        <= BreakBase + BumpRoom, FALSE} :
       \E a \in {Bump_alloc(bump, size, gone, grant)} :
          bump' = [a.b EXCEPT
                     !.ret  = a.ret,
                     !.live = IF a.b.status = "running" /\ a.ret # NULL
                              THEN @ \cup {a.ret} ELSE @,
                     !.ops  = @ + 1,
                     !.call = [NoBumpCall EXCEPT !.op = "alloc",
                                                 !.size = size,
                                                 !.ptr = a.ret,
                                                 !.pre_brk = bump.brk]]
    /\ BumpFrame

\* A caller gives back a block it holds.
BumpFree(ptr) ==
    /\ bump.status = "running"
    /\ bump.ops < BumpOps
    /\ ptr \in bump.live
    /\ \E gone \in BOOLEAN :
       \E build \in Builds :
       \E f \in {Bump_free(bump, ptr, gone, build = "checked")} :
          bump' = [f EXCEPT
                     !.live  = @ \ {ptr},
                     !.ops   = @ + 1,
                     !.build = IF ptr - HEADER_SIZE = bump.last
                                  /\ f.status # "faulted"
                               THEN build ELSE @,
                     !.call  = [NoBumpCall EXCEPT
                                   !.op = "free",
                                   !.ptr = ptr,
                                   !.header = ptr - HEADER_SIZE,
                                   !.size = bump.mem[ptr - HEADER_SIZE].size,
                                   !.was_last = ptr - HEADER_SIZE = bump.last,
                                   !.pre_brk = bump.brk]]
    /\ BumpFrame

\* A caller of a BumpAllocator.
NextBump ==
    \/ \E size \in BumpSizes : BumpAlloc(size)
    \/ \E ptr \in bump.live : BumpFree(ptr)

SpecBump == Init /\ [][NextBump]_vars

(* ------------------- the cached page size, by access ------------------- *)

\* Everything but the cached page size and its callers.
CacheFrame == UNCHANGED <<heap_vars, ops, list_vars, aligned, mmap_vars, step,
                          platform, bump>>

\* Thread t goes from one point of its call to the next.
CacheGoto(c, t, to) == [c EXCEPT !.pc[t] = to]

\* allocate on instance i begins: the thread takes the mutex of that
\* instance, waiting as long as another thread holds it, and the manager
\* comes to allocate_new_region.
CacheEnter(t, i) ==
    /\ cache.pc[t] = "out"
    /\ cache.lock[i] = 0
    /\ cache' = [CacheGoto(cache, t, "field") EXCEPT !.lock[i] = t,
                                                     !.self[t] = i]
    /\ CacheFrame

\* allocate_new_region: if self.page_size == 0.
CacheField(t) ==
    /\ cache.pc[t] = "field"
    /\ cache' = CacheGoto(cache, t,
                          IF cache.page_size[cache.self[t]] = 0
                          THEN "test" ELSE "leave")
    /\ CacheFrame

\* page_size(): if PAGE_SIZE == 0, a read of the static.
CacheTest(t) ==
    /\ cache.pc[t] = "test"
    /\ cache' = CacheGoto(cache, t,
                          IF cache.PAGE_SIZE = 0 THEN "write" ELSE "read")
    /\ CacheFrame

\* page_size(): PAGE_SIZE = Kernel::page_size(), a write of the static.
CacheWrite(t) ==
    /\ cache.pc[t] = "write"
    /\ cache' = [CacheGoto(cache, t, "read") EXCEPT
                    !.PAGE_SIZE = cached_page_size(0),
                    !.writes = @ + 1]
    /\ CacheFrame

\* page_size(): the value of PAGE_SIZE is the result, a read of the static.
CacheRead(t) ==
    /\ cache.pc[t] = "read"
    /\ cache' = CacheGoto(cache, t, "copy")
    /\ CacheFrame

\* allocate_new_region: self.page_size = PAGE_SIZE, a read of the static.
CacheCopy(t) ==
    /\ cache.pc[t] = "copy"
    /\ cache' = [CacheGoto(cache, t, "leave") EXCEPT
                    !.page_size[cache.self[t]] = cache.PAGE_SIZE]
    /\ CacheFrame

\* allocate returns: the mutex of the instance is dropped.
CacheLeave(t) ==
    /\ cache.pc[t] = "leave"
    /\ cache' = [CacheGoto(cache, t, "out") EXCEPT
                    !.lock[cache.self[t]] = 0,
                    !.self[t] = 0]
    /\ CacheFrame

\* Threads that make growing allocate calls on the instances of the process.
NextCache ==
    \/ \E t \in Callers : \E i \in Instances : CacheEnter(t, i)
    \/ \E t \in Callers : CacheField(t)
    \/ \E t \in Callers : CacheTest(t)
    \/ \E t \in Callers : CacheWrite(t)
    \/ \E t \in Callers : CacheRead(t)
    \/ \E t \in Callers : CacheCopy(t)
    \/ \E t \in Callers : CacheLeave(t)

SpecCache == Init /\ [][NextCache]_vars

(* ------------------------------ claims -------------------------------- *)

\* The region whose range holds the address p, as a set of region indices.
RegionsHolding(p) ==
    {i \in 1..Len(regions) :
        regions[i].addr <= p /\
        p < regions[i].addr + REGION_HEADER_SIZE + regions[i].size}

\* C1: the payload ranges [p, p + size) of any two allocations held at the
\* same time are disjoint, and no allocate returns a range that meets one
\* already held.
C1_NonOverlap ==
    /\ \A a, b \in live :
          a # b => ~Overlap(a.ptr, a.size, b.ptr, b.size)
    /\ ~last.clash

\* A freed block has just been handed out again while other allocations
\* are held.
C1_Witness ==
    /\ last.op = "alloc"
    /\ last.after_free # NULL
    /\ ret = last.after_free
    /\ Cardinality(live) >= 3

\* C2: an allocate whose platform acquire did not fail returns a non-null
\* pointer to a used block whose payload is at least the requested size.
C2_AllocateSucceeds ==
    (last.op = "alloc" /\ ~last.failed) =>
        /\ ret # NULL
        /\ \E b \in AllBlocks(regions) :
              /\ b.addr = ret - BLOCK_HEADER_SIZE
              /\ ~b.is_free
              /\ b.size >= last.size

\* C3: once every pointer returned by allocate has been deallocated, the
\* region list and the free-list index are empty.
C3_HeapHygiene ==
    live = {} => (regions = <<>> /\ free_list = <<>>)

\* C4: no region has two neighbouring blocks that are both free.
C4_NoAdjacentFree ==
    \A i \in 1..Len(regions) :
        \A j \in 1..(Len(regions[i].blocks) - 1) :
            ~(regions[i].blocks[j].is_free /\ regions[i].blocks[j + 1].is_free)

\* A deallocate has coalesced the block with its free predecessor in a
\* region that stays in the list.
C4_Witness ==
    /\ last.op = "dealloc"
    /\ last.merged_prev
    /\ last.kept

\* C5: a block of a listed region has an entry in the free-list index iff
\* its is_free flag is set, and then exactly one.
C5_FreeIndexFidelity ==
    \A b \in AllBlocks(regions) :
        LET entries == {i \in 1..Len(free_list) : free_list[i].data = b.addr}
        IN  /\ b.is_free <=> entries # {}
            /\ Cardinality(entries) <= 1

\* Used and free blocks coexist, the index holds several entries, and the
\* last call re-indexed a coalesced block.
C5_Witness ==
    /\ last.op = "dealloc"
    /\ last.kept
    /\ last.merged_next
    /\ Len(free_list) >= 2
    /\ \E b \in AllBlocks(regions) : ~b.is_free

\* C6: in every listed region the first block header follows the region
\* header, each further header follows the payload of the block before it,
\* and the headers and payloads add up to the region's payload size.
C6_Layout ==
    \A i \in 1..Len(regions) :
        LET bs == regions[i].blocks
            End(j) == bs[j].addr + BLOCK_HEADER_SIZE + bs[j].size
        IN  /\ Len(bs) >= 1
            /\ bs[1].addr = regions[i].addr + REGION_HEADER_SIZE
            /\ \A j \in 2..Len(bs) : bs[j].addr = End(j - 1)
            /\ End(Len(bs)) =
                   regions[i].addr + REGION_HEADER_SIZE + regions[i].size

\* The last call coalesced a block with both of its neighbours and a region
\* of several blocks remains.
C6_Witness ==
    /\ last.op = "dealloc"
    /\ last.merged_prev
    /\ last.merged_next
    /\ \E i \in 1..Len(regions) : Len(regions[i].blocks) >= 2

\* C7: every listed region holds a live allocation or more than one block,
\* and every live allocation lies in a listed region.
C7_RegionLifecycle ==
    /\ \A i \in 1..Len(regions) :
          \/ \E a \in live : i \in RegionsHolding(a.ptr)
          \/ Len(regions[i].blocks) > 1
    /\ \A a \in live : RegionsHolding(a.ptr) # {}

C9_TripleCoalesce ==
    script.n = 8 => ret = script.held[1]

\* C10: an allocate whose platform acquire fails returns null without
\* panicking and leaves the region list, the block lists and the index as
\* they were.
C10_AcquireFailure ==
    (last.op = "alloc" /\ last.failed) =>
        /\ ~panicked
        /\ ret = NULL
        /\ regions = last.pre[1].regions
        /\ free_list = last.pre[1].free_list

\* C11: deallocate of a pointer that was already deallocated and not
\* returned again since touches no released memory and leaves the region
\* list, the block lists and the free-list index as they were.
C11_DoubleFreeNoOp ==
    last.op = "refree" =>
        /\ ~faulted
        /\ regions = last.pre[1].regions
        /\ free_list = last.pre[1].free_list

\* C12: deallocate of the null pointer leaves the region list, every block
\* and the free-list index as they were.
C12_NullFreeNoOp ==
    last.op = "free_null" =>
        /\ regions = last.pre[1].regions
        /\ free_list = last.pre[1].free_list
        /\ ~faulted /\ ~panicked

\* The null pointer was deallocated while the heap held used and free
\* blocks.
C12_Witness ==
    /\ last.op = "free_null"
    /\ free_list # <<>>
    /\ \E b \in AllBlocks(regions) : ~b.is_free

\* C13: while a caller holds p = allocate(size), no allocate and no
\* deallocate of another pointer writes a byte of [p, p + size); block
\* headers, region headers and free-index nodes lie outside every payload
\* that is held.
C13_WriteIntegrity ==
    /\ ~scribbled
    /\ \A a \in live :
          /\ \A b \in AllBlocks(regions) :
                ~Meets(b.addr, b.addr + BLOCK_HEADER_SIZE, a.ptr, a.ptr + a.size)
          /\ \A i \in 1..Len(free_list) :
                ~Meets(free_list[i].at, free_list[i].at + MIN_BLOCK_SIZE,
                       a.ptr, a.ptr + a.size)
          /\ \A i \in 1..Len(regions) :
                ~Meets(regions[i].addr, regions[i].addr + REGION_HEADER_SIZE,
                       a.ptr, a.ptr + a.size)

\* A deallocate coalesced a block with both neighbours, rewriting headers
\* and index nodes next to payloads that other callers hold.
C13_Witness ==
    /\ last.op = "dealloc"
    /\ last.merged_prev
    /\ last.merged_next
    /\ \E a \in live : a.size > 0
    /\ Len(free_list) >= 1

\* C14: every pointer allocate returns, every block payload address and
\* every region payload address is a multiple of the word size.
C14_Alignment ==
    /\ ret % WORD = 0
    /\ \A a \in live : a.ptr % WORD = 0
    /\ \A b \in AllBlocks(regions) : (b.addr + BLOCK_HEADER_SIZE) % WORD = 0
    /\ \A i \in 1..Len(regions) :
          (regions[i].addr + REGION_HEADER_SIZE) % WORD = 0

\* A request that is not a multiple of the word was served by a split deep
\* inside a region.
C14_Witness ==
    /\ last.op = "alloc"
    /\ last.size % WORD # 0
    /\ ret # NULL
    /\ \E i \in 1..Len(regions) :
          /\ Len(regions[i].blocks) >= 3
          /\ regions[i].blocks[2].addr = ret - BLOCK_HEADER_SIZE

\* C15: every block, free or used, has a payload of at least
\* MIN_BLOCK_SIZE bytes, whatever sizes were requested.
C15_MinPayload ==
    \A b \in AllBlocks(regions) : b.size >= MIN_BLOCK_SIZE

\* An empty request is held, and the last allocate was served whole from a
\* larger block because the remainder would have been too small to split.
C15_Witness ==
    /\ last.op = "alloc"
    /\ \E a \in live : a.size = 0
    /\ \E b \in AllBlocks(regions) :
          /\ b.addr = ret - BLOCK_HEADER_SIZE
          /\ ~b.is_free
          /\ b.size > Target(last.size)

\* C16: at most one thread is inside the manager at any instant, and that
\* thread holds the lock from its first access to its last mutation.
C16_MutualExclusion ==
    /\ Cardinality({t \in Threads : pc[t] # "out"}) <= 1
    /\ \A t \in Threads : pc[t] # "out" => lock = t

\* A thread has just run a call under the lock, on a heap where the other
\* thread holds an allocation, while that other thread is outside.
C16_Witness ==
    /\ lock # 0
    /\ pc[lock] = "done"
    /\ \E t \in Threads : t # lock /\ owns[t] # {} /\ pc[t] = "out"

\* C17: every interleaving of two threads that call through the locked
\* facade keeps live allocations disjoint, the index faithful and free
\* blocks apart, and once both threads have given back everything the
\* region list and the free-list index are empty.
C17_ThreadsHeap ==
    /\ \A a, b \in live : a # b => ~Overlap(a.ptr, a.size, b.ptr, b.size)
    /\ \A b \in AllBlocks(regions) :
          b.is_free <=> \E i \in 1..Len(free_list) : free_list[i].data = b.addr
    /\ \A i \in 1..Len(regions) : \A j \in 1..(Len(regions[i].blocks) - 1) :
          ~(regions[i].blocks[j].is_free /\ regions[i].blocks[j + 1].is_free)
    /\ (lock = 0 /\ \A t \in Threads : owns[t] = {}) =>
          (regions = <<>> /\ free_list = <<>>)

\* C18: allocate_zeroed(size) returns what allocate returns; on success the
\* bytes of [p, p + size) are all zero, exactly that range was written and
\* nothing beyond p + size; on failure it returns null and writes nothing.
C18_ZeroedAllocation ==
    fill.on =>
        /\ ~panicked
        /\ last.failed => ret = NULL
        /\ ret = NULL => fill.lo = fill.hi
        /\ ret # NULL =>
              /\ fill.lo = ret
              /\ fill.hi = ret + last.size
              /\ \A w \in nonzero : ~Meets(w[1], w[2], ret, ret + last.size)

\* The data of the nodes met by iterating from cur.
DataFrom(cur, mem) ==
    LET it == Iter(cur, mem, MaxNodes + 1)
    IN  [i \in 1..Len(it) |-> mem[it[i]].data]

\* C19: append writes the node at the address supplied, after the old
\* tail and with no successor, makes it the tail (and the head of a list
\* that was empty), adds one to len, returns the node, and leaves the
\* elements that were there in their order.
C19_Append ==
    call.op = "append" =>
        LET pre == call.pre[1]
        IN  /\ node_ref = call.addr
            /\ nodes[call.addr] =
                   [next |-> NULL, prev |-> pre.tail, data |-> call.data]
            /\ tail = call.addr
            /\ pre.tail # NULL =>
                   (nodes[pre.tail].next = call.addr /\ head = pre.head)
            /\ pre.tail = NULL => head = call.addr
            /\ len = pre.len + 1
            /\ Elements = Iter(pre.head, pre.nodes, MaxNodes + 1) \o <<call.addr>>
            /\ DataFrom(head, nodes) =
                   DataFrom(pre.head, pre.nodes) \o <<call.data>>

\* A node was appended to a list of two nodes or more.
C19_Witness ==
    /\ call.op = "append"
    /\ call.pre[1].len >= 2
    /\ len >= 3

\* C20: insert_after places the new node at the address supplied right
\* after existing, before the old successor of existing, makes it the tail
\* exactly when existing was the tail, and adds one to len.
C20_InsertAfter ==
    call.op = "insert_after" =>
        LET pre  == call.pre[1]
            succ == pre.nodes[call.existing].next
            was  == Iter(pre.head, pre.nodes, MaxNodes + 1)
            at   == CHOOSE i \in 1..Len(was) : was[i] = call.existing
        IN  /\ node_ref = call.addr
            /\ nodes[call.existing].next = call.addr
            /\ nodes[call.addr] =
                   [next |-> succ, prev |-> call.existing, data |-> call.data]
            /\ succ # NULL => nodes[succ].prev = call.addr
            /\ tail = (IF pre.tail = call.existing THEN call.addr ELSE pre.tail)
            /\ head = pre.head
            /\ len = pre.len + 1
            /\ Elements = SubSeq(was, 1, at) \o <<call.addr>> \o
                              SubSeq(was, at + 1, Len(was))

\* A node was inserted after the tail of a list of two nodes or more.
C20_Witness ==
    /\ call.op = "insert_after"
    /\ call.pre[1].tail = call.existing
    /\ call.pre[1].len >= 2
    /\ tail = call.addr

\* C21: remove unlinks a node of the list, at the head, in the middle or at
\* the tail: its former neighbours point at each other, head and tail move
\* when the node was the head or the tail (both none when it was the only
\* node), len drops by one and the other elements keep their order.
C21_Remove ==
    call.op = "remove" =>
        LET pre  == call.pre[1]
            prev == pre.nodes[call.existing].prev
            next == pre.nodes[call.existing].next
            was  == Iter(pre.head, pre.nodes, MaxNodes + 1)
            at   == CHOOSE i \in 1..Len(was) : was[i] = call.existing
        IN  /\ prev # NULL => nodes[prev].next = next
            /\ next # NULL => nodes[next].prev = prev
            /\ head = (IF pre.head = call.existing THEN next ELSE pre.head)
            /\ tail = (IF pre.tail = call.existing THEN prev ELSE pre.tail)
            /\ pre.len = 1 => (head = NULL /\ tail = NULL)
            /\ len = pre.len - 1
            /\ Elements = remove(was, at)
            /\ DataFrom(head, nodes) = remove(DataFrom(pre.head, pre.nodes), at)

\* A node in the middle of a list of three nodes or more was removed.
C21_Witness ==
    /\ call.op = "remove"
    /\ call.pre[1].len >= 3
    /\ call.pre[1].head # call.existing
    /\ call.pre[1].tail # call.existing
    /\ len >= 2

\* C22: align(x, a), a a power of two, returns the smallest multiple of a
\* that is greater than or equal to x: 8 for 1..7 and 16 for 9..15 with
\* a = 8, 4096 for 1..4095 with a = 4096, and x itself when x is a multiple
\* of a.
C22_AlignUp ==
    aligned.op = "align" =>
        LET x == aligned.to_be_aligned
            a == aligned.aligment
            r == aligned.result
        IN  /\ r % a = 0
            /\ r >= x
            /\ r - a < x
            /\ x % a = 0 => r = x
            /\ (a = 8 /\ x \in 1..7) => r = 8
            /\ (a = 8 /\ x \in 9..15) => r = 16
            /\ (a = 4096 /\ x \in 1..4095) => r = 4096

\* A value just below a page was rounded up to the page.
C22_Witness ==
    /\ aligned.op = "align"
    /\ aligned.aligment = 4096
    /\ aligned.to_be_aligned = 4095
    /\ aligned.result = 4096

C24_RegionSize ==
    (last.op = "alloc" /\ last.grew) =>
        LET region == regions[Len(regions)]
            bs     == region.blocks
            asked  == align(Target(last.size) + BLOCK_HEADER_SIZE
                              + REGION_HEADER_SIZE, page_size)
        IN  /\ region.size + REGION_HEADER_SIZE = asked
            /\ PagesOf(region.addr, asked) \subseteq mapped
            /\ bs[1].addr = region.addr + REGION_HEADER_SIZE
            /\ bs[Len(bs)].addr + BLOCK_HEADER_SIZE + bs[Len(bs)].size =
                   region.addr + asked

\* The positions in the index fl of the entries for block.
Entries(fl, block) == {i \in 1..Len(fl) : fl[i].data = block}

\* C25: take_from_block(B, r) splits B iff total >= split_offset +
\* BLOCK_HEADER_SIZE + MIN_BLOCK_SIZE; on a split B.size becomes
\* split_offset - BLOCK_HEADER_SIZE and a new free, indexed block of size
\* total - split_offset - BLOCK_HEADER_SIZE follows B in the block list;
\* otherwise B's size and the block list are unchanged; in both cases B
\* leaves the index and is marked used.
C25_TakeFromBlock ==
    step.done = "take_from_block" =>
        LET pre          == step.pre[1]
            B            == step.block
            b0           == BlockAt(pre.regions, B)
            target       == Max(align(step.size, WORD), MIN_BLOCK_SIZE)
            split_offset == align(BLOCK_HEADER_SIZE + target, WORD)
            total        == b0.size + BLOCK_HEADER_SIZE
            i            == RegionIndex(pre.regions, b0.region)
            bs0          == pre.regions[i].blocks
            bs1          == regions[i].blocks
            j            == BlockIndex(bs0, B)
            worthwhile   == total >= split_offset + BLOCK_HEADER_SIZE
                                       + MIN_BLOCK_SIZE
        IN  /\ worthwhile =>
                  /\ Len(bs1) = Len(bs0) + 1
                  /\ bs1[j].size = split_offset - BLOCK_HEADER_SIZE
                  /\ bs1[j + 1] =
                        [addr    |-> B + split_offset,
                         size    |-> total - split_offset - BLOCK_HEADER_SIZE,
                         is_free |-> TRUE,
                         region  |-> b0.region]
                  /\ Cardinality(Entries(free_list, B + split_offset)) = 1
                  /\ \A n \in 1..Len(bs0) :
                        n # j => bs1[IF n < j THEN n ELSE n + 1] = bs0[n]
            /\ ~worthwhile =>
                  /\ Len(bs1) = Len(bs0)
                  /\ bs1[j].size = b0.size
                  /\ \A n \in 1..Len(bs0) : n # j => bs1[n] = bs0[n]
            /\ bs1[j].addr = B
            /\ ~bs1[j].is_free
            /\ Entries(pre.free_list, B) # {}
            /\ Entries(free_list, B) = {}
            /\ \A n \in 1..Len(regions) : n # i => regions[n] = pre.regions[n]

\* A block that is not the first of its region was split for a request
\* that is not a multiple of the word.
C25_Witness ==
    /\ step.done = "take_from_block"
    /\ step.size % WORD # 0
    /\ \E i \in 1..Len(regions) :
          LET bs == regions[i].blocks
          IN  \E j \in 2..(Len(bs) - 1) :
                 /\ bs[j].addr = step.block
                 /\ bs[j + 1].is_free
                 /\ Len(step.pre[1].regions[i].blocks) = Len(bs) - 1

\* C26: check_region_removal ends a deallocate in exactly one of two ways.
\* When the region holds exactly one block after coalescing, the region
\* leaves the region list, its range goes back to the platform and the index
\* holds no entry for the block; otherwise the region stays and the block
\* has exactly one entry in the index, stored at its own payload address.
C26_RegionRemoval ==
    step.done = "check_region_removal" =>
        LET pre    == step.pre[1]
            i      == RegionIndex(pre.regions, step.region)
            region == pre.regions[i]
            listed == \E n \in 1..Len(regions) : regions[n].addr = step.region
            range  == PagesOf(step.region, region.size + REGION_HEADER_SIZE)
            es     == Entries(free_list, step.block)
        IN  IF Len(region.blocks) = 1
            THEN /\ ~listed
                 /\ Len(regions) = Len(pre.regions) - 1
                 /\ range # {} /\ range \cap mapped = {}
                 /\ es = {}
            ELSE /\ listed
                 /\ regions = [pre.regions EXCEPT
                                  ![i].blocks = regions[i].blocks]
                 /\ range \subseteq mapped
                 /\ Cardinality(es) = 1
                 /\ \A e \in es :
                       free_list[e].at = step.block + BLOCK_HEADER_SIZE

\* A deallocate released one of two regions: the other stays listed with
\* its blocks.
C26_Witness ==
    /\ step.done = "check_region_removal"
    /\ Len(step.pre[1].regions) = 2
    /\ Len(regions) = 1
    /\ mapped # {}

\* C27: merge_with_prev(block), the block before block being free, removes
\* the predecessor's entry from the index, adds BLOCK_HEADER_SIZE +
\* block.size to the predecessor's size, unlinks block from the block list
\* and makes the handle refer to the predecessor.
C27_MergeWithPrev ==
    step.done = "merge_with_prev" =>
        LET pre == step.pre[1]
            i   == RegionIndex(pre.regions, step.region)
            bs0 == pre.regions[i].blocks
            bs1 == regions[i].blocks
            j   == BlockIndex(bs0, step.block)
        IN  (j > 1 /\ bs0[j - 1].is_free) =>
               LET P == bs0[j - 1].addr
               IN  /\ Entries(pre.free_list, P) # {}
                   /\ Entries(free_list, P) = {}
                   /\ Len(free_list) = Len(pre.free_list) - 1
                   /\ bs1[j - 1] =
                         [bs0[j - 1] EXCEPT
                             !.size = @ + BLOCK_HEADER_SIZE + bs0[j].size]
                   /\ Len(bs1) = Len(bs0) - 1
                   /\ \A n \in 1..Len(bs1) : bs1[n].addr # step.block
                   /\ \A n \in 1..Len(bs0) :
                         n \notin {j - 1, j} =>
                             bs1[IF n < j THEN n ELSE n - 1] = bs0[n]
                   /\ step.node = P

\* A block whose predecessor was free and whose successor exists was
\* merged into the predecessor.
C27_Witness ==
    /\ step.done = "merge_with_prev"
    /\ step.node # step.block
    /\ \E i \in 1..Len(regions) :
          \E j \in 1..(Len(regions[i].blocks) - 1) :
              regions[i].blocks[j].addr = step.node

\* C28: merge_with_next(block), the block after block being free, removes
\* the successor's entry from the index, adds BLOCK_HEADER_SIZE + the
\* successor's size to block.size, unlinks the successor from the block list
\* and leaves the handle on block.
C28_MergeWithNext ==
    step.done = "merge_with_next" =>
        LET pre == step.pre[1]
            i   == RegionIndex(pre.regions, step.region)
            bs0 == pre.regions[i].blocks
            bs1 == regions[i].blocks
            j   == BlockIndex(bs0, step.block)
        IN  (j < Len(bs0) /\ bs0[j + 1].is_free) =>
               LET N == bs0[j + 1].addr
               IN  /\ Entries(pre.free_list, N) # {}
                   /\ Entries(free_list, N) = {}
                   /\ Len(free_list) = Len(pre.free_list) - 1
                   /\ bs1[j] =
                         [bs0[j] EXCEPT
                             !.size = @ + BLOCK_HEADER_SIZE + bs0[j + 1].size]
                   /\ Len(bs1) = Len(bs0) - 1
                   /\ \A n \in 1..Len(bs1) : bs1[n].addr # N
                   /\ \A n \in 1..Len(bs0) :
                         n \notin {j, j + 1} =>
                             bs1[IF n < j THEN n ELSE n - 1] = bs0[n]
                   /\ step.node = step.block

\* A block that had already absorbed its predecessor absorbed its free
\* successor too, in a region that holds a further block.
C28_Witness ==
    /\ step.done = "merge_with_next"
    /\ Len(free_list) < Len(step.pre[1].free_list)
    /\ \E i \in 1..Len(regions) :
          /\ Len(regions[i].blocks) >= 2
          /\ \E j \in 1..Len(regions[i].blocks) :
                regions[i].blocks[j].addr = step.node

\* C29: merge_with_prev and merge_with_next leave the block list, every
\* size, the handle and the index as they were when the neighbour is absent
\* or not free, and never add or remove the index entry of the block they
\* are handed.
C29_MergeFrame ==
    step.done \in {"merge_with_prev", "merge_with_next"} =>
        LET pre == step.pre[1]
            i   == RegionIndex(pre.regions, step.region)
            bs0 == pre.regions[i].blocks
            j   == BlockIndex(bs0, step.block)
            k   == IF step.done = "merge_with_prev" THEN j - 1 ELSE j + 1
            mergeable == k \in 1..Len(bs0) /\ bs0[k].is_free
        IN  /\ ~mergeable =>
                  /\ regions = pre.regions
                  /\ free_list = pre.free_list
                  /\ step.node = step.block
            /\ Cardinality(Entries(free_list, step.block)) =
                   Cardinality(Entries(pre.free_list, step.block))

\* merge_with_prev met a used predecessor while the index held entries.
C29_Witness ==
    /\ step.done = "merge_with_prev"
    /\ step.node = step.block
    /\ free_list # <<>>
    /\ \E i \in 1..Len(regions) :
          \E j \in 2..Len(regions[i].blocks) :
              /\ regions[i].blocks[j].addr = step.block
              /\ ~regions[i].blocks[j - 1].is_free

\* C30: find_free_block(size) answers the first block in index order whose
\* payload is at least max(align(size, word), MIN_BLOCK_SIZE), none iff the
\* index holds no such block, and changes neither the index nor a block.
C30_FindFit ==
    step.done = "find_free_block" =>
        LET pre    == step.pre[1]
            target == Max(align(step.size, WORD), MIN_BLOCK_SIZE)
            Fits(n) == BlockAt(regions, free_list[n].data).size >= target
        IN  /\ step.found = NULL <=> \A n \in 1..Len(free_list) : ~Fits(n)
            /\ step.found # NULL =>
                  \E n \in 1..Len(free_list) :
                     /\ free_list[n].data = step.found
                     /\ Fits(n)
                     /\ \A m \in 1..(n - 1) : ~Fits(m)
            /\ regions = pre.regions
            /\ free_list = pre.free_list

\* The search passed over an entry that was too small and answered a later
\* one.
C30_Witness ==
    /\ step.done = "find_free_block"
    /\ step.found # NULL
    /\ Len(free_list) >= 2
    /\ free_list[1].data # step.found

\* C31: every call of return_memory passes the base address and the length
\* of one range that request_memory handed out and that has not been given
\* back since; the range is given back once, and no live allocation lies in
\* it.
C31_ReleaseMatchesAcquire ==
    /\ \A r \in platform.returned :
          /\ r \in platform.pre
          /\ r \notin platform.held
          /\ \A a \in live : ~Meets(a.ptr, a.ptr + Max(a.size, 1),
                                    r.addr, r.addr + r.len)
    /\ platform.held = platform.pre \ platform.returned
          \/ step.done = "allocate_new_region"
    /\ \A r \in platform.held : PagesOf(r.addr, r.len) \subseteq mapped
    /\ \A r, q \in platform.held :
          r # q => ~Meets(r.addr, r.addr + r.len, q.addr, q.addr + q.len)

\* One of two ranges was given back while the caller held an allocation in
\* the other.
C31_Witness ==
    /\ step.done = "check_region_removal"
    /\ platform.returned # {}
    /\ Cardinality(platform.pre) = 2
    /\ live # {}

\* C32: every node of the free-list index is stored at header +
\* BLOCK_HEADER_SIZE of the block it points to, that block is a free block
\* of a listed region and its payload holds the whole node; the node lies
\* in mapped pages and meets no used block.
C32_IndexNodePlacement ==
    \A i \in 1..Len(free_list) :
        LET e    == free_list[i]
            here == {b \in AllBlocks(regions) : b.addr = e.data}
        IN  /\ here # {}
            /\ \A b \in here :
                  /\ b.is_free
                  /\ e.at = b.addr + BLOCK_HEADER_SIZE
                  /\ e.at + MIN_BLOCK_SIZE <= b.addr + BLOCK_HEADER_SIZE + b.size
            /\ PageOf(e.at) \in mapped
            /\ PageOf(e.at + MIN_BLOCK_SIZE - 1) \in mapped
            /\ \A u \in AllBlocks(regions) :
                  ~u.is_free =>
                      ~Meets(e.at, e.at + MIN_BLOCK_SIZE,
                             u.addr, u.addr + BLOCK_HEADER_SIZE + u.size)

\* deallocate indexed a block again behind another node of the index while
\* the heap held a used block and a second region.
C32_Witness ==
    /\ step.done = "check_region_removal"
    /\ platform.returned = {}
    /\ Len(free_list) >= 2
    /\ Len(regions) >= 2
    /\ free_list[Len(free_list)].data = step.node
    /\ \E b \in AllBlocks(regions) : ~b.is_free

\* check_region_removal has just asked the index to take out a block that was
\* flagged free and had no node in the index.
MissingNodeRemoval ==
    /\ step.done = "check_region_removal"
    /\ Entries(step.pre[1].free_list, step.node) = {}
    /\ BlockAt(step.pre[1].regions, step.node).is_free

\* C33 as stated: asking the index to remove a block that is flagged free and
\* has no node in the index aborts the process.
C33_MissingNodeAborts ==
    MissingNodeRemoval => panicked

\* C33: asking the index to remove a block that is flagged free and has no
\* node in the index changes nothing and aborts nothing: the index is left as
\* it was, check_region_removal goes on, and the block is indexed at the
\* tail unless its region is released.
C33_MissingNodeIgnored ==
    MissingNodeRemoval =>
        /\ ~panicked
        /\ IF platform.returned # {}
           THEN free_list = step.pre[1].free_list
           ELSE free_list =
                    append(step.pre[1].free_list,
                           [at   |-> step.node + BLOCK_HEADER_SIZE,
                            data |-> step.node])

\* The block had no node while the index held other nodes; the region was
\* kept and the process went on.
C33_Witness ==
    /\ MissingNodeRemoval
    /\ Len(step.pre[1].free_list) >= 1
    /\ platform.returned = {}
    /\ ~panicked

\* The points of a call whose next step reads or writes the static
\* PAGE_SIZE.
CacheAccess == {"test", "write", "read", "copy"}

\* C34: the cached page size is written at most once, every thread that is
\* about to read or write it holds the mutex of the manager, and no thread
\* is about to write it while another thread is about to read or write it,
\* whatever the number of allocator instances.
C34_CachedPageSizeUnderLock ==
    /\ cache.writes <= 1
    /\ \A t \in Callers :
          cache.pc[t] \in CacheAccess => cache.lock[cache.self[t]] = t
    /\ \A t, u \in Callers :
          (t # u /\ cache.pc[t] = "write") => cache.pc[u] \notin CacheAccess

\* C35 as stated: under weak fairness of the lock (and of the scheduler)
\* every allocate and deallocate that a thread has begun returns, or the
\* process aborts.
C35_EveryCallReturns ==
    \A t \in Threads : (pc[t] # "out") ~> (pc[t] = "out" \/ panicked)

\* C35: every allocate and deallocate that a thread has begun returns, or
\* the process aborts, when the lock is strongly fair: a thread that finds
\* the mutex free again and again gets it.  Once it holds the mutex its
\* call ends.
C35_CallsReturnUnderStrongFairness ==
    (\A t \in Threads : SF_vars(Acquire(t))) =>
        \A t \in Threads : (pc[t] # "out") ~> (pc[t] = "out" \/ panicked)

\* A thread waits for the mutex while the other thread holds it and runs.
C35_Witness ==
    \E t, u \in Threads :
        /\ pc[t] \in {"wants_alloc", "wants_free"}
        /\ lock = u
        /\ pc[u] = "done"
        /\ owns[t] # {}
        /\ owns[u] # {}

\* C36: after any sequence of append, insert_after and remove the list is
\* well formed: head.prev and tail.next are none, following next from head
\* visits exactly len nodes, each once, and ends at tail, a.next = b if and
\* only if b.prev = a for the nodes of the list, and head and tail are none
\* exactly when len = 0.
C36_ListWellFormed ==
    LET it == Iter(head, nodes, MaxNodes + 1)
        in_list == {it[i] : i \in 1..Len(it)}
    IN  /\ (head = NULL) <=> (len = 0)
        /\ (tail = NULL) <=> (len = 0)
        /\ head # NULL => nodes[head].prev = NULL
        /\ tail # NULL => nodes[tail].next = NULL
        /\ Len(it) = len
        /\ len > 0 => it[len] = tail
        /\ \A i, j \in 1..Len(it) : i # j => it[i] # it[j]
        /\ \A a, b \in in_list : (nodes[a].next = b) <=> (nodes[b].prev = a)

\* A node between two others was removed from a list of three nodes or
\* more.
C36_Witness ==
    /\ call.op = "remove"
    /\ call.pre[1].len >= 3
    /\ call.existing # call.pre[1].head
    /\ call.existing # call.pre[1].tail
    /\ len >= 2

\* The blocks met from cur on by following the next link of the free list of
\* the MmapAllocator, at most fuel of them; the walk stops at a block whose
\* page is no longer mapped.
RECURSIVE FreeWalk(_, _)
FreeWalk(cur, fuel) ==
    IF cur = NULL \/ fuel = 0 THEN <<>>
    ELSE IF PageOf(cur) \notin mm_mapped THEN <<cur>>
    ELSE <<cur>> \o FreeWalk(Load(mm_mem, free_list_ptr(cur) + LINKS_NEXT_AT),
                             fuel - 1)

\* The blocks on the free list of the MmapAllocator.
FreeListed == {FreeWalk(mm_free_list, WalkFuel)[i] :
                  i \in 1..Len(FreeWalk(mm_free_list, WalkFuel))}

\* C38: every block on the free list of the MmapAllocator has a payload of
\* MIN_BLOCK_SIZE bytes or more, so that its links, at the start of the
\* payload, end before the header of the block that follows it.
C38_FreePayloadHoldsLinks ==
    mm_status = "running" =>
        \A block \in FreeListed :
            PageOf(block) \in mm_mapped =>
                /\ Load(mm_mem, block + SIZE_AT) >= MMAP_MIN_BLOCK_SIZE
                /\ free_list_ptr(block) + LINKS_NEXT_AT + WORD <=
                       block + header_size + Load(mm_mem, block + SIZE_AT)

\* The Region structs met from r on by following next, at most fuel of them.
RECURSIVE RegionWalk(_, _)
RegionWalk(r, fuel) ==
    IF r = NULL \/ fuel = 0 \/ r \notin DOMAIN mm_boxes THEN {}
    ELSE {r} \cup RegionWalk(mm_boxes[r].next, fuel - 1)

\* The block headers met from b on by following next inside a region, at
\* most fuel of them.
RECURSIVE BlockWalk(_, _)
BlockWalk(b, fuel) ==
    IF b = NULL \/ fuel = 0 \/ PageOf(b) \notin mm_mapped THEN {}
    ELSE {b} \cup BlockWalk(Load(mm_mem, b + NEXT_AT), fuel - 1)

\* The blocks of the regions of the MmapAllocator whose is_free byte is 1.
FreeBlocks ==
    {b \in UNION {BlockWalk(mm_boxes[r].first, WalkFuel) :
                     r \in RegionWalk(mm_regions, WalkFuel)} :
        Load(mm_mem, b + IS_FREE_AT) % 256 = 1}

\* C37: after every alloc and dealloc of the MmapAllocator the free list is
\* a finite acyclic doubly-linked list that holds exactly the blocks of the
\* mapped regions whose is_free flag is true, each once, and no block of
\* an unmapped region.
C37_FreeListExact ==
    mm_status = "running" =>
        LET walk == FreeWalk(mm_free_list, WalkFuel)
        IN  /\ Len(walk) < WalkFuel
            /\ \A i, j \in 1..Len(walk) : i # j => walk[i] # walk[j]
            /\ \A i \in 1..Len(walk) : PageOf(walk[i]) \in mm_mapped
            /\ \A i \in 1..Len(walk) :
                  PageOf(walk[i]) \in mm_mapped =>
                      Load(mm_mem, free_list_ptr(walk[i]) + LINKS_PREV_AT) =
                          IF i = 1 THEN NULL ELSE walk[i - 1]
            /\ FreeListed = FreeBlocks

\* The headers that a walk from current by next visits.
RECURSIVE BumpChain(_, _, _)
BumpChain(b, current, fuel) ==
    IF current = NULL \/ fuel = 0 \/ current \notin DOMAIN b.mem THEN {}
    ELSE {current} \cup BumpChain(b, b.mem[current].next, fuel - 1)

\* C39: in BumpAllocator, after free() gave the last block back to the
\* operating system, every header reachable from first by next lies below
\* the program break and last.next is null, and an alloc never returns
\* memory above the program break.
C39_ChainBelowBreak ==
    /\ (bump.call.op = "free" /\ bump.call.was_last
            /\ bump.status = "running") =>
          /\ \A h \in BumpChain(bump, bump.first, WalkFuel) :
                h + HEADER_SIZE <= bump.brk
          /\ bump.last # NULL => bump.mem[bump.last].next = NULL
    /\ (bump.call.op = "alloc" /\ bump.status = "running"
            /\ bump.ret # NULL) =>
          bump.ret + bump.call.size <= bump.brk

\* C40: in BumpAllocator, a free of the last block returns and leaves the
\* program break lower by exactly the bytes the block's allocation raised
\* it, align(HEADER_SIZE + size), for every request size.
C40_BreakRestored ==
    (bump.call.op = "free" /\ bump.call.was_last
        /\ bump.status # "faulted") =>
        /\ bump.status = "running"
        /\ bump.call.pre_brk - bump.brk
              = Bump_align(HEADER_SIZE + bump.call.size)

====
